---------------------------- MODULE Spec2Model ----------------------------
(***************************************************************************)
(* Alfred's natural-language front end: the rule-based intent parser       *)
(* (src/intents.py) and the conversation context manager                   *)
(* (src/functions/context_manager.py).                                     *)
(*                                                                         *)
(* Python values are modelled as follows.  A str is a TLA+ string, read    *)
(* character by character with SubSeq.  An Optional value is None (the     *)
(* empty tuple) or Some(x) (a one-element tuple).  A dict is a function    *)
(* whose domain is its set of keys.  The confidences 0.9 and 0.5 are       *)
(* counted in hundredths.  time.time() is the integer clock `now`.         *)
(***************************************************************************)
EXTENDS Integers, Sequences, FiniteSets, TLC

VARIABLES
  context,    \* the ContextManager object (its fields are the record's fields)
  now,        \* the clock read by time.time()
  call,       \* the last call made on the context manager, with what it returned
  utterance,  \* the text handed to the intent parser
  result,     \* what IntentParser.parse returned for the utterance, None before the call
  detected    \* what IntentParser.detect_language returned for it, None before the call

vars == <<context, now, call, utterance, result, detected>>

(***************************************************************************)
(* Bounds of the model                                                     *)
(***************************************************************************)
MaxHistory == 2     \* max_history is drawn from 1..MaxHistory
MaxTime == 3        \* the clock runs from 0 to MaxTime
MaxTimeout == 2     \* timeout is drawn from 1..MaxTimeout

(***************************************************************************)
(* Optional values and dicts                                               *)
(***************************************************************************)
None == <<>>
Some(x) == <<x>>
IsNone(o) == Len(o) = 0
Value(o) == o[1]

EmptyDict == <<>>
KV(key, value) == [x \in {key} |-> value]
\* dict.update / item assignment: the entries of `new` replace those of `old`
Update(old, new) == new @@ old

(***************************************************************************)
(* ContextManager (src/functions/context_manager.py)                       *)
(***************************************************************************)
ConversationTurn(timestamp, command, intent, language, parameters, response, success) ==
  [timestamp |-> timestamp, command |-> command, intent |-> intent, language |-> language,
   parameters |-> parameters, response |-> response, success |-> success]

ContextManager(timeout, max_history, t) ==
  [timeout |-> timeout,
   max_history |-> max_history,
   history |-> <<>>,
   current_location |-> None,
   current_destination |-> None,
   current_time_reference |-> None,
   current_topic |-> None,
   last_entity |-> None,
   preferences |-> EmptyDict,
   last_activity |-> t,
   session_start |-> t]

is_active_Always(c, t) == TRUE

is_active(c, t) == (t - c.last_activity) < c.timeout

reset_ClearsPreferences(c, t) ==
  [c EXCEPT !.history = <<>>,
            !.current_location = None,
            !.current_destination = None,
            !.current_time_reference = None,
            !.current_topic = None,
            !.last_entity = None,
            !.preferences = EmptyDict,
            !.last_activity = t]

reset(c, t) ==
  [c EXCEPT !.history = <<>>,
            !.current_location = None,
            !.current_destination = None,
            !.current_time_reference = None,
            !.current_topic = None,
            !.last_entity = None,
            !.last_activity = t]

topic_map ==
  KV("weather", "weather") @@ KV("transport_car", "transport")
  @@ KV("transport_public", "transport") @@ KV("recipe_search", "food")
  @@ KV("recipe_random", "food") @@ KV("news", "news") @@ KV("finance", "finance")
  @@ KV("finance_watchlist", "finance") @@ KV("calculate", "math")

_infer_topic_IntentAsDefault(intent) ==
  IF intent \in DOMAIN topic_map THEN topic_map[intent] ELSE intent

_infer_topic(intent) ==
  IF intent \in DOMAIN topic_map THEN topic_map[intent] ELSE "general"

_update_context_from_turn_ClearsLocation(c, turn) ==
  LET c1 == [c EXCEPT !.current_location =
                        IF "location" \in DOMAIN turn.parameters
                        THEN Some(turn.parameters["location"]) ELSE None]
      c2 == IF "destination" \in DOMAIN turn.parameters
            THEN [c1 EXCEPT !.current_destination = Some(turn.parameters["destination"]),
                            !.last_entity = Some(turn.parameters["destination"])]
            ELSE c1
      c3 == IF "arrival_time" \in DOMAIN turn.parameters
            THEN [c2 EXCEPT !.current_time_reference = Some(turn.parameters["arrival_time"])]
            ELSE c2
      c4 == [c3 EXCEPT !.current_topic = Some(_infer_topic(turn.intent))]
  IN IF turn.intent \in {"recipe_search", "recipe_random"} /\ "query" \in DOMAIN turn.parameters
     THEN [c4 EXCEPT !.last_entity = Some(turn.parameters["query"])]
     ELSE c4

_update_context_from_turn(c, turn) ==
  LET c1 == IF "location" \in DOMAIN turn.parameters
            THEN [c EXCEPT !.current_location = Some(turn.parameters["location"])]
            ELSE c
      c2 == IF "destination" \in DOMAIN turn.parameters
            THEN [c1 EXCEPT !.current_destination = Some(turn.parameters["destination"]),
                            !.last_entity = Some(turn.parameters["destination"])]
            ELSE c1
      c3 == IF "arrival_time" \in DOMAIN turn.parameters
            THEN [c2 EXCEPT !.current_time_reference = Some(turn.parameters["arrival_time"])]
            ELSE c2
      c4 == [c3 EXCEPT !.current_topic = Some(_infer_topic(turn.intent))]
  IN IF turn.intent \in {"recipe_search", "recipe_random"} /\ "query" \in DOMAIN turn.parameters
     THEN [c4 EXCEPT !.last_entity = Some(turn.parameters["query"])]
     ELSE c4

\* add_turn, lines 99-101: an expired context is reset before anything is recorded
ResetIfExpired_Never(c, t) == c

ResetIfExpired(c, t) == IF ~is_active(c, t) THEN reset(c, t) ELSE c

\* add_turn, lines 117-119: the oldest turn is dropped when the history is too long
TrimHistory_OffByOne(c) ==
  IF Len(c.history) > c.max_history + 1 THEN [c EXCEPT !.history = Tail(@)] ELSE c

TrimHistory(c) ==
  IF Len(c.history) > c.max_history THEN [c EXCEPT !.history = Tail(@)] ELSE c

\* Every clock read of one call returns t: the call takes no time on the model's clock.
add_turn(c, command, intent, language, parameters, response, success, t) ==
  LET fresh == ResetIfExpired(c, t)
      turn == ConversationTurn(t, command, intent, language, parameters, response, success)
      appended == [fresh EXCEPT !.history = Append(@, turn)]
      trimmed == TrimHistory(appended)
      updated == _update_context_from_turn(trimmed, turn)
  IN [updated EXCEPT !.last_activity = t]

set_preference(c, key, value) ==
  [c EXCEPT !.preferences = Update(@, KV(key, value))]

(***************************************************************************)
(* The calls a client makes on the context manager                         *)
(***************************************************************************)
\* The turns a client records: those of the module's own test (lines 296-339), two
\* more that carry an arrival time and a recipe query, and the turn the main loop
\* records for a recipe search asked as a follow-up of a journey: the query of the
\* utterance together with the destination that handle_follow_up supplied.
TurnInputs ==
  {<<"What's the weather in Milan?", "weather", "en", KV("location", "Milan"),
     "The weather in Milan is 15 degrees, partly cloudy.", TRUE>>,
   <<"Traffic to Vercelli", "transport_car", "en", KV("destination", "Vercelli"),
     "It will take 22 minutes to get to Vercelli.", TRUE>>,
   <<"test", "test", "en", EmptyDict, "test", TRUE>>,
   <<"Mezzi per Torino per arrivare alle 9:30", "transport_public", "it",
     KV("destination", "torino") @@ KV("arrival_time", "9:30"), "", FALSE>>,
   <<"Ricetta per carbonara", "recipe_search", "it", KV("query", "carbonara"),
     "Ecco la ricetta.", TRUE>>,
   <<"What about a recipe for carbonara", "recipe_search", "en",
     KV("query", "carbonara") @@ KV("destination", "vercelli"), "Here is a recipe.", TRUE>>}

PreferenceKeys == {"units"}
PreferenceValues == {"metric", "imperial"}

NoCall == [op |-> "none"]

InitParser ==
  /\ utterance = ""
  /\ result = None
  /\ detected = None

Init ==
  /\ now = 0
  /\ \E timeout \in 1..MaxTimeout, max_history \in 1..MaxHistory :
       context = ContextManager(timeout, max_history, 0)
  /\ call = NoCall
  /\ InitParser

AddTurn ==
  \E input \in TurnInputs :
    /\ context' = add_turn(context, input[1], input[2], input[3], input[4], input[5], input[6], now)
    /\ call' = [op |-> "add_turn", input |-> input, expired |-> ~is_active(context, now),
                turns_before |-> Len(context.history),
                had_destination |-> ~IsNone(context.current_destination)]
    /\ UNCHANGED <<now, utterance, result, detected>>

Reset ==
  /\ context' = reset(context, now)
  /\ call' = [op |-> "reset", turns_before |-> Len(context.history)]
  /\ UNCHANGED <<now, utterance, result, detected>>

SetPreference ==
  \E key \in PreferenceKeys, value \in PreferenceValues :
    /\ context' = set_preference(context, key, value)
    /\ call' = [op |-> "set_preference", key |-> key, value |-> value]
    /\ UNCHANGED <<now, utterance, result, detected>>

\* Time passes between two calls; this is how a context times out.
Tick ==
  /\ now < MaxTime
  /\ now' = now + 1
  /\ call' = [op |-> "time_passes"]
  /\ UNCHANGED <<context, utterance, result, detected>>

Next == AddTurn \/ Reset \/ SetPreference \/ Tick

Spec == Init /\ [][Next]_vars

(***************************************************************************)
(* Claims about the context manager, checked under Spec                    *)
(***************************************************************************)
\* C1: with max_history = N >= 1, the history holds at most N turns after every call
\* of add_turn and reset.
C1_HistoryBounded == Len(context.history) <= context.max_history

\* add_turn was called on an active context whose history was full
C1_Witness ==
  /\ call.op = "add_turn"
  /\ ~call.expired
  /\ call.turns_before = context.max_history
  /\ Len(context.history) = context.max_history

\* C2: reset empties the history, sets the five scalar fields to None and leaves the
\* preferences as they were; no add_turn, reset or passing of time changes the preferences.
C2_ResetKeepsPreferences ==
  [][/\ call'.op = "reset" =>
          /\ context'.history = <<>>
          /\ context'.current_location = None
          /\ context'.current_destination = None
          /\ context'.current_time_reference = None
          /\ context'.current_topic = None
          /\ context'.last_entity = None
          /\ context'.preferences = context.preferences
     /\ call'.op \in {"add_turn", "reset", "time_passes"} =>
          context'.preferences = context.preferences]_vars

\* reset was called on a context that held turns and a stored preference
C2_Witness ==
  /\ call.op = "reset"
  /\ call.turns_before > 0
  /\ "units" \in DOMAIN context.preferences

\* C3: add_turn on an expired context resets it first: afterwards the history is exactly
\* the new turn, current_destination is None unless the new turn carries a destination,
\* and the preferences are unchanged.
C3_ExpiredAddTurnStartsAfresh ==
  [][(call'.op = "add_turn" /\ call'.expired) =>
        /\ context'.history =
             <<ConversationTurn(now, call'.input[1], call'.input[2], call'.input[3],
                                call'.input[4], call'.input[5], call'.input[6])>>
        /\ "destination" \notin DOMAIN call'.input[4] => context'.current_destination = None
        /\ context'.preferences = context.preferences]_vars

\* add_turn without a destination was called on an expired context that held turns,
\* a destination and a stored preference
C3_Witness ==
  /\ call.op = "add_turn"
  /\ call.expired
  /\ call.turns_before > 0
  /\ call.had_destination
  /\ "destination" \notin DOMAIN call.input[4]
  /\ "units" \in DOMAIN context.preferences

(***************************************************************************)
(* Python str: characters, case, stripping                                 *)
(***************************************************************************)
UpperAlpha == "ABCDEFGHIJKLMNOPQRSTUVWXYZÈÉÀÙÒÌ"
LowerAlpha == "abcdefghijklmnopqrstuvwxyzèéàùòì"
DigitAlpha == "0123456789"

CharAt(s, i) == SubSeq(s, i, i)
CharsOf(s) == {CharAt(s, k) : k \in 1..Len(s)}
IndexIn(alpha, c) == CHOOSE k \in 1..Len(alpha) : CharAt(alpha, k) = c

ToLowerMap == [c \in CharsOf(UpperAlpha) |-> CharAt(LowerAlpha, IndexIn(UpperAlpha, c))]
ToUpperMap == [c \in CharsOf(LowerAlpha) |-> CharAt(UpperAlpha, IndexIn(LowerAlpha, c))]

LowerChar(c) == IF c \in DOMAIN ToLowerMap THEN ToLowerMap[c] ELSE c
UpperChar(c) == IF c \in DOMAIN ToUpperMap THEN ToUpperMap[c] ELSE c

\* str.lower()
RECURSIVE lower(_)
lower(s) ==
  IF Len(s) = 0 THEN ""
  ELSE IF Len(s) = 1 THEN LowerChar(s)
  ELSE lower(SubSeq(s, 1, Len(s) \div 2)) \o lower(SubSeq(s, Len(s) \div 2 + 1, Len(s)))

\* str.capitalize()
capitalize(s) ==
  IF Len(s) = 0 THEN "" ELSE UpperChar(CharAt(s, 1)) \o lower(SubSeq(s, 2, Len(s)))

\* the regex classes \d, \s and \w, and a range [a-b] of letters or digits
Digit == CharsOf(DigitAlpha)
Space == {" ", "\t", "\n"}
Word == CharsOf(UpperAlpha) \cup CharsOf(LowerAlpha) \cup Digit \cup {"_"}
Range(a, b) ==
  LET alpha == IF a \in CharsOf(UpperAlpha) THEN SubSeq(UpperAlpha, 1, 26)
               ELSE IF a \in CharsOf(LowerAlpha) THEN SubSeq(LowerAlpha, 1, 26)
               ELSE DigitAlpha
  IN {CharAt(alpha, k) : k \in IndexIn(alpha, a)..IndexIn(alpha, b)}

Max(S) == CHOOSE x \in S : \A y \in S : y <= x
Min(S) == CHOOSE x \in S : \A y \in S : x <= y

\* str.lstrip(cs), str.rstrip(cs), str.strip()
lstrip(s, cs) ==
  LET keep == {k \in 1..Len(s) : CharAt(s, k) \notin cs}
  IN IF keep = {} THEN "" ELSE SubSeq(s, Min(keep), Len(s))

rstrip(s, cs) ==
  LET keep == {k \in 1..Len(s) : CharAt(s, k) \notin cs}
  IN IF keep = {} THEN "" ELSE SubSeq(s, 1, Max(keep))

strip(s) == rstrip(lstrip(s, Space), Space)

\* sub in s
Contains(s, sub) ==
  \E k \in 0..(Len(s) - Len(sub)) : SubSeq(s, k + 1, k + Len(sub)) = sub

\* sep.join(xs)
RECURSIVE join(_, _)
join(sep, xs) ==
  IF Len(xs) = 0 THEN ""
  ELSE IF Len(xs) = 1 THEN xs[1]
  ELSE xs[1] \o sep \o join(sep, Tail(xs))

\* The outcome of a call that can raise: the value returned or the exception raised
Returned(v) == [raised |-> FALSE, value |-> v]
Raise(name) == [raised |-> TRUE, exception |-> name]

\* int(s) of a str: the number written in decimal digits, ValueError otherwise
RECURSIVE DecimalValue(_)
DecimalValue(s) ==
  IF Len(s) = 0 THEN 0
  ELSE 10 * DecimalValue(SubSeq(s, 1, Len(s) - 1)) + (IndexIn(DigitAlpha, CharAt(s, Len(s))) - 1)

int(s) ==
  IF Len(s) > 0 /\ CharsOf(s) \subseteq Digit THEN Returned(DecimalValue(s))
  ELSE Raise("ValueError")

(***************************************************************************)
(* Python re: syntax trees of the patterns and the backtracking matcher    *)
(***************************************************************************)
Inf == 0 - 1
Lit(s) == [t |-> "lit", s |-> s]                  \* literal text
Cls(cs) == [t |-> "cls", cs |-> cs]               \* [...]: one character of a set
Dot == [t |-> "dot"]                              \* .
Cat(ns) == [t |-> "cat", ns |-> ns]               \* one node after the other
Alt(ns) == [t |-> "alt", ns |-> ns]               \* a|b|c
Rep(mn, mx, n) == [t |-> "rep", mn |-> mn, mx |-> mx, greedy |-> TRUE, n |-> n]   \* {mn,mx}
Opt(n) == Rep(0, 1, n)                            \* ?
Star(n) == Rep(0, Inf, n)                         \* *
Plus(n) == Rep(1, Inf, n)                         \* +
LazyPlus(n) == [t |-> "rep", mn |-> 1, mx |-> Inf, greedy |-> FALSE, n |-> n]     \* +?
Grp(k, n) == [t |-> "grp", k |-> k, n |-> n]      \* (...): capturing group k
GrpEnd(k, from) == [t |-> "gend", k |-> k, from |-> from]
Bol == [t |-> "bol"]                              \* ^
Eol == [t |-> "eol"]                              \* $
WordB == [t |-> "wordb"]                          \* \b

\* A compiled pattern with the language and intent bound to it
Rule(re, ngroups, lang, intent) ==
  [re |-> re, ngroups |-> ngroups, lang |-> lang, intent |-> intent]

NoMatch == [ok |-> FALSE]

\* re.IGNORECASE: two texts that differ in case only are equal
RECURSIVE EqIgnoreCase(_, _)
EqIgnoreCase(a, b) ==
  \/ a = b
  \/ /\ Len(a) = Len(b)
     /\ Len(a) > 0
     /\ LowerChar(CharAt(a, 1)) = LowerChar(CharAt(b, 1))
     /\ EqIgnoreCase(SubSeq(a, 2, Len(a)), SubSeq(b, 2, Len(b)))

InClass(c, cs) == c \in cs \/ LowerChar(c) \in cs \/ UpperChar(c) \in cs

IsCharNode(n) == n.t \in {"dot", "cls"}

CharMatches(n, c) == IF n.t = "dot" THEN c # "\n" ELSE InClass(c, n.cs)

\* How many characters after position i the one-character node n accepts in a row, at most mx
RunLength(s, i, n, mx) ==
  LET limit == IF mx = Inf \/ mx > Len(s) - i THEN Len(s) - i ELSE mx
  IN CHOOSE m \in 0..limit :
       /\ \A j \in 1..m : CharMatches(n, CharAt(s, i + j))
       /\ m = limit \/ ~CharMatches(n, CharAt(s, i + m + 1))

\* The backtracking matcher.  st is the sequence of nodes still to match from position i
\* (i characters consumed), g the groups captured so far.  The alternatives are tried in
\* the order of Python's engine (the first alternative first, a greedy repetition longest
\* first, a lazy one shortest first) and the first complete match is returned.
RECURSIVE Match(_, _, _, _)
Match(s, st, i, g) ==
  IF Len(st) = 0 THEN [ok |-> TRUE, from |-> 0, to |-> i, g |-> g]
  ELSE
    LET n == Head(st)
        rest == Tail(st)
    IN CASE n.t = "lit" ->
              IF /\ i + Len(n.s) <= Len(s)
                 /\ EqIgnoreCase(SubSeq(s, i + 1, i + Len(n.s)), n.s)
              THEN Match(s, rest, i + Len(n.s), g) ELSE NoMatch
         [] IsCharNode(n) ->
              IF i < Len(s) /\ CharMatches(n, CharAt(s, i + 1))
              THEN Match(s, rest, i + 1, g) ELSE NoMatch
         [] n.t = "cat" -> Match(s, n.ns \o rest, i, g)
         [] n.t = "alt" ->
              LET first == Match(s, <<Head(n.ns)>> \o rest, i, g)
              IN IF first.ok \/ Len(n.ns) = 1 THEN first
                 ELSE Match(s, <<Alt(Tail(n.ns))>> \o rest, i, g)
         [] n.t = "rep" /\ IsCharNode(n.n) ->
              LET run == RunLength(s, i, n.n, n.mx)
                  tries == [k \in n.mn..run |-> Match(s, rest, i + k, g)]
                  good == {k \in n.mn..run : tries[k].ok}
              IN IF good = {} THEN NoMatch
                 ELSE IF n.greedy THEN tries[Max(good)] ELSE tries[Min(good)]
         [] n.t = "rep" /\ ~IsCharNode(n.n) ->
              LET more == <<n.n, [n EXCEPT !.mn = IF n.mn > 0 THEN n.mn - 1 ELSE 0,
                                           !.mx = IF n.mx = Inf THEN Inf ELSE n.mx - 1]>>
                          \o rest
              IN IF n.mn > 0 THEN Match(s, more, i, g)
                 ELSE IF n.mx = 0 THEN Match(s, rest, i, g)
                 ELSE IF n.greedy
                      THEN LET r == Match(s, more, i, g)
                           IN IF r.ok THEN r ELSE Match(s, rest, i, g)
                      ELSE LET r == Match(s, rest, i, g)
                           IN IF r.ok THEN r ELSE Match(s, more, i, g)
         [] n.t = "grp" -> Match(s, <<n.n, GrpEnd(n.k, i)>> \o rest, i, g)
         [] n.t = "gend" ->
              Match(s, rest, i, [g EXCEPT ![n.k] = Some(SubSeq(s, n.from + 1, i))])
         [] n.t = "wordb" ->
              IF (i > 0 /\ CharAt(s, i) \in Word) # (i < Len(s) /\ CharAt(s, i + 1) \in Word)
              THEN Match(s, rest, i, g) ELSE NoMatch
         [] n.t = "bol" -> IF i = 0 THEN Match(s, rest, i, g) ELSE NoMatch
         [] n.t = "eol" ->
              IF i = Len(s) \/ (i = Len(s) - 1 /\ CharAt(s, Len(s)) = "\n")
              THEN Match(s, rest, i, g) ELSE NoMatch

\* Of the matches tried at the start positions, at[j] for position j, the one at the
\* leftmost position where the pattern matched
Leftmost(at) ==
  LET starts == {j \in DOMAIN at : at[j].ok}
  IN IF starts = {} THEN NoMatch
     ELSE [at[Min(starts)] EXCEPT !.from = Min(starts)]

\* The match at the leftmost start position at or after i where the pattern matches;
\* m.g[k] is group k: None when the group took no part in the match.
SearchFrom(rule, s, i) ==
  Leftmost([j \in i..Len(s) |-> Match(s, <<rule.re>>, j, [k \in 1..rule.ngroups |-> None])])

\* re.search(pattern, s, re.IGNORECASE)
re_search(rule, s) == SearchFrom(rule, s, 0)

\* re.findall(pattern, s) of a pattern without groups: the matched texts, left to right.
\* FindAllFrom searches from position i on, FindAllAfter continues after the match m.
RECURSIVE FindAllFrom(_, _, _)
RECURSIVE FindAllAfter(_, _, _)
FindAllAfter(rule, s, m) ==
  IF ~m.ok THEN <<>>
  ELSE <<SubSeq(s, m.from + 1, m.to)>>
       \o FindAllFrom(rule, s, IF m.to > m.from THEN m.to ELSE m.to + 1)

FindAllFrom(rule, s, i) == FindAllAfter(rule, s, SearchFrom(rule, s, i))

re_findall(rule, s) == FindAllFrom(rule, s, 0)

(***************************************************************************)
(* The pattern rules of _compile_patterns (src/intents.py), in one         *)
(* definition; above each rule stands the regex it was translated from     *)
(***************************************************************************)
\* self.patterns: the categories in the order in which the dict was filled,
\* each category the list of its rules in the order of the source
patterns ==
  <<
    \* category time (lines 124-129)
    <<
      \* what time is it
      Rule(Lit("what time is it"),
           0, "en", "time"),
      \* what'?s? the time
      Rule(Cat(<<Lit("what"), Opt(Lit("'")), Opt(Lit("s")), Lit(" the time")>>),
           0, "en", "time"),
      \* tell me the time
      Rule(Lit("tell me the time"),
           0, "en", "time"),
      \* che or[ae] (?:è|sono)
      Rule(Cat(<<Lit("che or"), Cls({"a", "e"}), Lit(" "), Alt(<<Lit("è"), Lit("sono")>>)>>),
           0, "it", "time"),
      \* (?:mi )?di[ci]? (?:che ore sono|l'ora) (?:che ora è)
      Rule(Cat(<<Opt(Lit("mi ")), Lit("di"), Opt(Cls({"c", "i"})), Lit(" "), Alt(<<Lit("che ore sono"), Lit("l'ora")>>), Lit(" che ora è")>>),
           0, "it", "time")
    >>,
    \* category date (lines 135-139)
    <<
      \* what'?s? (?:the )?date
      Rule(Cat(<<Lit("what"), Opt(Lit("'")), Opt(Lit("s")), Lit(" "), Opt(Lit("the ")), Lit("date")>>),
           0, "en", "date"),
      \* what day is it
      Rule(Lit("what day is it"),
           0, "en", "date"),
      \* che giorno (?:è|e)(?: oggi)?
      Rule(Cat(<<Lit("che giorno "), Cls({"è", "e"}), Opt(Lit(" oggi"))>>),
           0, "it", "date"),
      \* (?:mi )?di[ci]? la data
      Rule(Cat(<<Opt(Lit("mi ")), Lit("di"), Opt(Cls({"c", "i"})), Lit(" la data")>>),
           0, "it", "date")
    >>,
    \* category weather (lines 145-153)
    <<
      \* what'?s? (?:the )?weather(?: like)?(?: today)?(?: in (.+))?
      Rule(Cat(<<Lit("what"), Opt(Lit("'")), Opt(Lit("s")), Lit(" "), Opt(Lit("the ")), Lit("weather"), Opt(Lit(" like")), Opt(Lit(" today")), Opt(Cat(<<Lit(" in "), Grp(1, Plus(Dot))>>))>>),
           1, "en", "weather"),
      \* how'?s? (?:the )?weather(?: today)?(?: in (.+))?
      Rule(Cat(<<Lit("how"), Opt(Lit("'")), Opt(Lit("s")), Lit(" "), Opt(Lit("the ")), Lit("weather"), Opt(Lit(" today")), Opt(Cat(<<Lit(" in "), Grp(1, Plus(Dot))>>))>>),
           1, "en", "weather"),
      \* is it (?:going to )?rain(?: today)?(?: in (.+))?
      Rule(Cat(<<Lit("is it "), Opt(Lit("going to ")), Lit("rain"), Opt(Lit(" today")), Opt(Cat(<<Lit(" in "), Grp(1, Plus(Dot))>>))>>),
           1, "en", "weather"),
      \* weather (?:forecast )?(in |for )?(.+)?
      Rule(Cat(<<Lit("weather "), Opt(Lit("forecast ")), Opt(Grp(1, Alt(<<Lit("in "), Lit("for ")>>))), Opt(Grp(2, Plus(Dot)))>>),
           2, "en", "weather"),
      \* che tempo fa(?: oggi)?(?: a (.+))?
      Rule(Cat(<<Lit("che tempo fa"), Opt(Lit(" oggi")), Opt(Cat(<<Lit(" a "), Grp(1, Plus(Dot))>>))>>),
           1, "it", "weather"),
      \* com'?è il tempo(?: oggi)?(?: a (.+))?
      Rule(Cat(<<Lit("com"), Opt(Lit("'")), Lit("è il tempo"), Opt(Lit(" oggi")), Opt(Cat(<<Lit(" a "), Grp(1, Plus(Dot))>>))>>),
           1, "it", "weather"),
      \* piove(?: oggi)?(?: a (.+))?
      Rule(Cat(<<Lit("piove"), Opt(Lit(" oggi")), Opt(Cat(<<Lit(" a "), Grp(1, Plus(Dot))>>))>>),
           1, "it", "weather"),
      \* (?:il )?meteo(?: oggi)?(?: (?:a|di) (.+))?
      Rule(Cat(<<Opt(Lit("il ")), Lit("meteo"), Opt(Lit(" oggi")), Opt(Cat(<<Lit(" "), Alt(<<Lit("a"), Lit("di")>>), Lit(" "), Grp(1, Plus(Dot))>>))>>),
           1, "it", "weather")
    >>,
    \* category email_send (lines 159-164)
    <<
      \* send (?:an )?email to (.+?) (?:saying|says?|and says?|that|to say) (.+)
      Rule(Cat(<<Lit("send "), Opt(Lit("an ")), Lit("email to "), Grp(1, LazyPlus(Dot)), Lit(" "), Alt(<<Lit("saying"), Cat(<<Lit("say"), Opt(Lit("s"))>>), Cat(<<Lit("and say"), Opt(Lit("s"))>>), Lit("that"), Lit("to say")>>), Lit(" "), Grp(2, Plus(Dot))>>),
           2, "en", "email_send"),
      \* email (.+?) (?:and say|saying|says|that) (.+)
      Rule(Cat(<<Lit("email "), Grp(1, LazyPlus(Dot)), Lit(" "), Alt(<<Lit("and say"), Lit("saying"), Lit("says"), Lit("that")>>), Lit(" "), Grp(2, Plus(Dot))>>),
           2, "en", "email_send"),
      \* (?:write|compose) (?:an )?email to (.+)
      Rule(Cat(<<Alt(<<Lit("write"), Lit("compose")>>), Lit(" "), Opt(Lit("an ")), Lit("email to "), Grp(1, Plus(Dot))>>),
           1, "en", "email_send"),
      \* manda (?:un'?)?email a (.+?) (?:e )?(?:dic[iae](?:ndo)?|che dice|di(?:gli|lle|mmi|ci|vi)) (.+)
      Rule(Cat(<<Lit("manda "), Opt(Cat(<<Lit("un"), Opt(Lit("'"))>>)), Lit("email a "), Grp(1, LazyPlus(Dot)), Lit(" "), Opt(Lit("e ")), Alt(<<Cat(<<Lit("dic"), Cls({"i", "a", "e"}), Opt(Lit("ndo"))>>), Lit("che dice"), Cat(<<Lit("di"), Alt(<<Lit("gli"), Lit("lle"), Lit("mmi"), Lit("ci"), Lit("vi")>>)>>)>>), Lit(" "), Grp(2, Plus(Dot))>>),
           2, "it", "email_send"),
      \* invia (?:un'?)?email a (.+?) (?:e )?(?:dic[iae](?:ndo)?|di(?:gli|lle|mmi|ci|vi)|con )?(?:il testo )?(.+)
      Rule(Cat(<<Lit("invia "), Opt(Cat(<<Lit("un"), Opt(Lit("'"))>>)), Lit("email a "), Grp(1, LazyPlus(Dot)), Lit(" "), Opt(Lit("e ")), Opt(Alt(<<Cat(<<Lit("dic"), Cls({"i", "a", "e"}), Opt(Lit("ndo"))>>), Cat(<<Lit("di"), Alt(<<Lit("gli"), Lit("lle"), Lit("mmi"), Lit("ci"), Lit("vi")>>)>>), Lit("con ")>>)), Opt(Lit("il testo ")), Grp(2, Plus(Dot))>>),
           2, "it", "email_send")
    >>,
    \* category email_search (lines 168-172)
    <<
      \* search (?:my )?emails? (?:for |about )(.+)
      Rule(Cat(<<Lit("search "), Opt(Lit("my ")), Lit("email"), Opt(Lit("s")), Lit(" "), Alt(<<Lit("for "), Lit("about ")>>), Grp(1, Plus(Dot))>>),
           1, "en", "email_search"),
      \* find emails? (?:about |with |containing )(.+)
      Rule(Cat(<<Lit("find email"), Opt(Lit("s")), Lit(" "), Alt(<<Lit("about "), Lit("with "), Lit("containing ")>>), Grp(1, Plus(Dot))>>),
           1, "en", "email_search"),
      \* cerca (?:nelle )?email (.+)
      Rule(Cat(<<Lit("cerca "), Opt(Lit("nelle ")), Lit("email "), Grp(1, Plus(Dot))>>),
           1, "it", "email_search"),
      \* trova email (?:su |con |riguardo )(.+)
      Rule(Cat(<<Lit("trova email "), Alt(<<Lit("su "), Lit("con "), Lit("riguardo ")>>), Grp(1, Plus(Dot))>>),
           1, "it", "email_search")
    >>,
    \* category email_read (lines 176-180)
    <<
      \* read (?:my )?(?:latest |last |recent )?emails?(?: from (.+))?
      Rule(Cat(<<Lit("read "), Opt(Lit("my ")), Opt(Alt(<<Lit("latest "), Lit("last "), Lit("recent ")>>)), Lit("email"), Opt(Lit("s")), Opt(Cat(<<Lit(" from "), Grp(1, Plus(Dot))>>))>>),
           1, "en", "email_read"),
      \* show me emails? from (.+)
      Rule(Cat(<<Lit("show me email"), Opt(Lit("s")), Lit(" from "), Grp(1, Plus(Dot))>>),
           1, "en", "email_read"),
      \* leggi (?:le )?(?:ultime )?email(?: di (.+))?
      Rule(Cat(<<Lit("leggi "), Opt(Lit("le ")), Opt(Lit("ultime ")), Lit("email"), Opt(Cat(<<Lit(" di "), Grp(1, Plus(Dot))>>))>>),
           1, "it", "email_read"),
      \* mostrami (?:le )?email di (.+)
      Rule(Cat(<<Lit("mostrami "), Opt(Lit("le ")), Lit("email di "), Grp(1, Plus(Dot))>>),
           1, "it", "email_read")
    >>,
    \* category email_check (lines 184-188)
    <<
      \* check (?:my )?(?:emails?|mail|inbox)
      Rule(Cat(<<Lit("check "), Opt(Lit("my ")), Alt(<<Cat(<<Lit("email"), Opt(Lit("s"))>>), Lit("mail"), Lit("inbox")>>)>>),
           0, "en", "email_check"),
      \* (?:do i have |any )(?:new )?(?:unread )?emails?
      Rule(Cat(<<Alt(<<Lit("do i have "), Lit("any ")>>), Opt(Lit("new ")), Opt(Lit("unread ")), Lit("email"), Opt(Lit("s"))>>),
           0, "en", "email_check"),
      \* controlla (?:la )?(?:posta|email)
      Rule(Cat(<<Lit("controlla "), Opt(Lit("la ")), Alt(<<Lit("posta"), Lit("email")>>)>>),
           0, "it", "email_check"),
      \* (?:ho )?(?:nuove )?email
      Rule(Cat(<<Opt(Lit("ho ")), Opt(Lit("nuove ")), Lit("email")>>),
           0, "it", "email_check")
    >>,
    \* category email_list (lines 192-198)
    <<
      \* (?:show|list|get)(?: me)?(?: my)? (?:recent |last |latest )?emails?
      Rule(Cat(<<Alt(<<Lit("show"), Lit("list"), Lit("get")>>), Opt(Lit(" me")), Opt(Lit(" my")), Lit(" "), Opt(Alt(<<Lit("recent "), Lit("last "), Lit("latest ")>>)), Lit("email"), Opt(Lit("s"))>>),
           0, "en", "email_list"),
      \* what are (?:my )?(?:recent |last |latest )?emails?
      Rule(Cat(<<Lit("what are "), Opt(Lit("my ")), Opt(Alt(<<Lit("recent "), Lit("last "), Lit("latest ")>>)), Lit("email"), Opt(Lit("s"))>>),
           0, "en", "email_list"),
      \* read (?:my )?(?:recent |last )?emails?
      Rule(Cat(<<Lit("read "), Opt(Lit("my ")), Opt(Alt(<<Lit("recent "), Lit("last ")>>)), Lit("email"), Opt(Lit("s"))>>),
           0, "en", "email_list"),
      \* (?:mostrami|dammi|elenca)(?: le)? (?:ultime |recenti )?email
      Rule(Cat(<<Alt(<<Lit("mostrami"), Lit("dammi"), Lit("elenca")>>), Opt(Lit(" le")), Lit(" "), Opt(Alt(<<Lit("ultime "), Lit("recenti ")>>)), Lit("email")>>),
           0, "it", "email_list"),
      \* quali sono le (?:ultime |recenti )?email
      Rule(Cat(<<Lit("quali sono le "), Opt(Alt(<<Lit("ultime "), Lit("recenti ")>>)), Lit("email")>>),
           0, "it", "email_list"),
      \* leggi (?:le )?(?:ultime |recenti )?email
      Rule(Cat(<<Lit("leggi "), Opt(Lit("le ")), Opt(Alt(<<Lit("ultime "), Lit("recenti ")>>)), Lit("email")>>),
           0, "it", "email_list")
    >>,
    \* category calendar_week (lines 204-208)
    <<
      \* what'?s? (?:on )?(?:my )?(?:calendar|schedule) (?:this |for (?:the )?)?week
      Rule(Cat(<<Lit("what"), Opt(Lit("'")), Opt(Lit("s")), Lit(" "), Opt(Lit("on ")), Opt(Lit("my ")), Alt(<<Lit("calendar"), Lit("schedule")>>), Lit(" "), Opt(Alt(<<Lit("this "), Cat(<<Lit("for "), Opt(Lit("the "))>>)>>)), Lit("week")>>),
           0, "en", "calendar_week"),
      \* (?:show me )?(?:my )?(?:events|appointments) (?:for )?(?:this |the )?week
      Rule(Cat(<<Opt(Lit("show me ")), Opt(Lit("my ")), Alt(<<Lit("events"), Lit("appointments")>>), Lit(" "), Opt(Lit("for ")), Opt(Cat(<<Lit("th"), Alt(<<Lit("is "), Lit("e ")>>)>>)), Lit("week")>>),
           0, "en", "calendar_week"),
      \* (?:cosa ho in )?calendario (?:questa |della )?settimana
      Rule(Cat(<<Opt(Lit("cosa ho in ")), Lit("calendario "), Opt(Alt(<<Lit("questa "), Lit("della ")>>)), Lit("settimana")>>),
           0, "it", "calendar_week"),
      \* (?:mostrami )?(?:gli )?appuntamenti (?:di |della )?(?:questa )?settimana
      Rule(Cat(<<Opt(Lit("mostrami ")), Opt(Lit("gli ")), Lit("appuntamenti "), Opt(Cat(<<Lit("d"), Alt(<<Lit("i "), Lit("ella ")>>)>>)), Opt(Lit("questa ")), Lit("settimana")>>),
           0, "it", "calendar_week")
    >>,
    \* category calendar_create (lines 212-217)
    <<
      \* create (?:an? )?(?:event|appointment|meeting) (.+)
      Rule(Cat(<<Lit("create "), Opt(Cat(<<Lit("a"), Opt(Lit("n")), Lit(" ")>>)), Alt(<<Lit("event"), Lit("appointment"), Lit("meeting")>>), Lit(" "), Grp(1, Plus(Dot))>>),
           1, "en", "calendar_create"),
      \* add (?:to calendar|event) (.+)
      Rule(Cat(<<Lit("add "), Alt(<<Lit("to calendar"), Lit("event")>>), Lit(" "), Grp(1, Plus(Dot))>>),
           1, "en", "calendar_create"),
      \* schedule (?:an? )?(?:event|appointment|meeting) (.+)
      Rule(Cat(<<Lit("schedule "), Opt(Cat(<<Lit("a"), Opt(Lit("n")), Lit(" ")>>)), Alt(<<Lit("event"), Lit("appointment"), Lit("meeting")>>), Lit(" "), Grp(1, Plus(Dot))>>),
           1, "en", "calendar_create"),
      \* crea (?:un )?(?:evento|appuntamento) (.+)
      Rule(Cat(<<Lit("crea "), Opt(Lit("un ")), Alt(<<Lit("evento"), Lit("appuntamento")>>), Lit(" "), Grp(1, Plus(Dot))>>),
           1, "it", "calendar_create"),
      \* aggiungi (?:al calendario|evento) (.+)
      Rule(Cat(<<Lit("aggiungi "), Alt(<<Lit("al calendario"), Lit("evento")>>), Lit(" "), Grp(1, Plus(Dot))>>),
           1, "it", "calendar_create")
    >>,
    \* category calendar_next (lines 221-224)
    <<
      \* what'?s? (?:my )?next (?:event|appointment|meeting)
      Rule(Cat(<<Lit("what"), Opt(Lit("'")), Opt(Lit("s")), Lit(" "), Opt(Lit("my ")), Lit("next "), Alt(<<Lit("event"), Lit("appointment"), Lit("meeting")>>)>>),
           0, "en", "calendar_next"),
      \* when is (?:my )?next (?:event|appointment|meeting)
      Rule(Cat(<<Lit("when is "), Opt(Lit("my ")), Lit("next "), Alt(<<Lit("event"), Lit("appointment"), Lit("meeting")>>)>>),
           0, "en", "calendar_next"),
      \* (?:qual è il|quando è) (?:mio )?prossimo (?:evento|appuntamento)
      Rule(Cat(<<Lit("qua"), Alt(<<Lit("l è il"), Lit("ndo è")>>), Lit(" "), Opt(Lit("mio ")), Lit("prossimo "), Alt(<<Lit("evento"), Lit("appuntamento")>>)>>),
           0, "it", "calendar_next")
    >>,
    \* category calendar_today (lines 228-235)
    <<
      \* what'?s? (?:on )?(?:my )?(?:calendar|schedule) today
      Rule(Cat(<<Lit("what"), Opt(Lit("'")), Opt(Lit("s")), Lit(" "), Opt(Lit("on ")), Opt(Lit("my ")), Alt(<<Lit("calendar"), Lit("schedule")>>), Lit(" today")>>),
           0, "en", "calendar_today"),
      \* (?:do i have )?(?:any )?(?:events|appointments|meetings) today
      Rule(Cat(<<Opt(Lit("do i have ")), Opt(Lit("any ")), Alt(<<Lit("events"), Lit("appointments"), Lit("meetings")>>), Lit(" today")>>),
           0, "en", "calendar_today"),
      \* what'?s? (?:on )?(?:my )?(?:calendar|schedule)(?:\?)?$
      Rule(Cat(<<Lit("what"), Opt(Lit("'")), Opt(Lit("s")), Lit(" "), Opt(Lit("on ")), Opt(Lit("my ")), Alt(<<Lit("calendar"), Lit("schedule")>>), Opt(Lit("?")), Eol>>),
           0, "en", "calendar_today"),
      \* check (?:my |the )?(?:calendar|schedule)(?:\?)?$
      Rule(Cat(<<Lit("check "), Opt(Alt(<<Lit("my "), Lit("the ")>>)), Alt(<<Lit("calendar"), Lit("schedule")>>), Opt(Lit("?")), Eol>>),
           0, "en", "calendar_today"),
      \* (?:cosa|che cosa) (?:ho |c'è )?(?:in )?(?:calendario|programma)(?: oggi)?
      Rule(Cat(<<Lit("c"), Alt(<<Lit("osa"), Lit("he cosa")>>), Lit(" "), Opt(Alt(<<Lit("ho "), Lit("c'è ")>>)), Opt(Lit("in ")), Alt(<<Lit("calendario"), Lit("programma")>>), Opt(Lit(" oggi"))>>),
           0, "it", "calendar_today"),
      \* (?:ho )?appuntamenti oggi
      Rule(Cat(<<Opt(Lit("ho ")), Lit("appuntamenti oggi")>>),
           0, "it", "calendar_today"),
      \* controlla (?:il )?calendario(?:\?)?$
      Rule(Cat(<<Lit("controlla "), Opt(Lit("il ")), Lit("calendario"), Opt(Lit("?")), Eol>>),
           0, "it", "calendar_today")
    >>,
    \* category calendar_yesterday (lines 239-246)
    <<
      \* what'?s? (?:was )?(?:on )?(?:my )?(?:calendar|schedule) yesterday
      Rule(Cat(<<Lit("what"), Opt(Lit("'")), Opt(Lit("s")), Lit(" "), Opt(Lit("was ")), Opt(Lit("on ")), Opt(Lit("my ")), Alt(<<Lit("calendar"), Lit("schedule")>>), Lit(" yesterday")>>),
           0, "en", "calendar_yesterday"),
      \* (?:did i have )?(?:any )?(?:events|appointments|meetings) yesterday
      Rule(Cat(<<Opt(Lit("did i have ")), Opt(Lit("any ")), Alt(<<Lit("events"), Lit("appointments"), Lit("meetings")>>), Lit(" yesterday")>>),
           0, "en", "calendar_yesterday"),
      \* what (?:was|were) (?:my )?(?:events|appointments) yesterday
      Rule(Cat(<<Lit("what w"), Alt(<<Lit("as"), Lit("ere")>>), Lit(" "), Opt(Lit("my ")), Alt(<<Lit("events"), Lit("appointments")>>), Lit(" yesterday")>>),
           0, "en", "calendar_yesterday"),
      \* check (?:my |the )?(?:calendar|schedule) yesterday
      Rule(Cat(<<Lit("check "), Opt(Alt(<<Lit("my "), Lit("the ")>>)), Alt(<<Lit("calendar"), Lit("schedule")>>), Lit(" yesterday")>>),
           0, "en", "calendar_yesterday"),
      \* (?:cosa|che cosa) (?:ho avuto|c'era) (?:in )?(?:calendario|programma) ieri
      Rule(Cat(<<Lit("c"), Alt(<<Lit("osa"), Lit("he cosa")>>), Lit(" "), Alt(<<Lit("ho avuto"), Lit("c'era")>>), Lit(" "), Opt(Lit("in ")), Alt(<<Lit("calendario"), Lit("programma")>>), Lit(" ieri")>>),
           0, "it", "calendar_yesterday"),
      \* (?:avevo )?appuntamenti ieri
      Rule(Cat(<<Opt(Lit("avevo ")), Lit("appuntamenti ieri")>>),
           0, "it", "calendar_yesterday"),
      \* controlla (?:il )?calendario ieri
      Rule(Cat(<<Lit("controlla "), Opt(Lit("il ")), Lit("calendario ieri")>>),
           0, "it", "calendar_yesterday")
    >>,
    \* category calendar_tomorrow (lines 250-257)
    <<
      \* what'?s? (?:on )?(?:my )?(?:calendar|schedule) tomorrow
      Rule(Cat(<<Lit("what"), Opt(Lit("'")), Opt(Lit("s")), Lit(" "), Opt(Lit("on ")), Opt(Lit("my ")), Alt(<<Lit("calendar"), Lit("schedule")>>), Lit(" tomorrow")>>),
           0, "en", "calendar_tomorrow"),
      \* (?:do i have )?(?:any )?(?:events|appointments|meetings) tomorrow
      Rule(Cat(<<Opt(Lit("do i have ")), Opt(Lit("any ")), Alt(<<Lit("events"), Lit("appointments"), Lit("meetings")>>), Lit(" tomorrow")>>),
           0, "en", "calendar_tomorrow"),
      \* what'?s? tomorrow'?s? (?:schedule|calendar|events?)
      Rule(Cat(<<Lit("what"), Opt(Lit("'")), Opt(Lit("s")), Lit(" tomorrow"), Opt(Lit("'")), Opt(Lit("s")), Lit(" "), Alt(<<Lit("schedule"), Lit("calendar"), Cat(<<Lit("event"), Opt(Lit("s"))>>)>>)>>),
           0, "en", "calendar_tomorrow"),
      \* check (?:my |the )?(?:calendar|schedule) tomorrow
      Rule(Cat(<<Lit("check "), Opt(Alt(<<Lit("my "), Lit("the ")>>)), Alt(<<Lit("calendar"), Lit("schedule")>>), Lit(" tomorrow")>>),
           0, "en", "calendar_tomorrow"),
      \* (?:cosa|che cosa) (?:ho |c'è )?(?:in )?(?:calendario|programma) domani
      Rule(Cat(<<Lit("c"), Alt(<<Lit("osa"), Lit("he cosa")>>), Lit(" "), Opt(Alt(<<Lit("ho "), Lit("c'è ")>>)), Opt(Lit("in ")), Alt(<<Lit("calendario"), Lit("programma")>>), Lit(" domani")>>),
           0, "it", "calendar_tomorrow"),
      \* (?:ho )?appuntamenti domani
      Rule(Cat(<<Opt(Lit("ho ")), Lit("appuntamenti domani")>>),
           0, "it", "calendar_tomorrow"),
      \* controlla (?:il )?calendario domani
      Rule(Cat(<<Lit("controlla "), Opt(Lit("il ")), Lit("calendario domani")>>),
           0, "it", "calendar_tomorrow")
    >>,
    \* category calendar_specific (lines 262-270)
    <<
      \* check (?:my |the )?([A-Z]\w+) calendar
      Rule(Cat(<<Lit("check "), Opt(Alt(<<Lit("my "), Lit("the ")>>)), Grp(1, Cat(<<Cls(Range("A", "Z")), Plus(Cls(Word))>>)), Lit(" calendar")>>),
           1, "en", "calendar_specific"),
      \* (?:what'?s?|what is) (?:on|in) (?:my |the )?([A-Z]\w+) calendar
      Rule(Cat(<<Lit("what"), Alt(<<Cat(<<Opt(Lit("'")), Opt(Lit("s"))>>), Lit(" is")>>), Lit(" "), Alt(<<Lit("on"), Lit("in")>>), Lit(" "), Opt(Alt(<<Lit("my "), Lit("the ")>>)), Grp(1, Cat(<<Cls(Range("A", "Z")), Plus(Cls(Word))>>)), Lit(" calendar")>>),
           1, "en", "calendar_specific"),
      \* (?:do i have )?(?:any )?(?:events|appointments) (?:on|in) (?:my |the )?([A-Z]\w+) calendar
      Rule(Cat(<<Opt(Lit("do i have ")), Opt(Lit("any ")), Alt(<<Lit("events"), Lit("appointments")>>), Lit(" "), Alt(<<Lit("on"), Lit("in")>>), Lit(" "), Opt(Alt(<<Lit("my "), Lit("the ")>>)), Grp(1, Cat(<<Cls(Range("A", "Z")), Plus(Cls(Word))>>)), Lit(" calendar")>>),
           1, "en", "calendar_specific"),
      \* show (?:me )?(?:my |the )?([A-Z]\w+) calendar
      Rule(Cat(<<Lit("show "), Opt(Lit("me ")), Opt(Alt(<<Lit("my "), Lit("the ")>>)), Grp(1, Cat(<<Cls(Range("A", "Z")), Plus(Cls(Word))>>)), Lit(" calendar")>>),
           1, "en", "calendar_specific"),
      \* controlla (?:il )?calendario ([A-Z]\w+)
      Rule(Cat(<<Lit("controlla "), Opt(Lit("il ")), Lit("calendario "), Grp(1, Cat(<<Cls(Range("A", "Z")), Plus(Cls(Word))>>))>>),
           1, "it", "calendar_specific"),
      \* (?:cosa|che cosa) (?:ho |c'è )?(?:nel|in) calendario ([A-Z]\w+)
      Rule(Cat(<<Lit("c"), Alt(<<Lit("osa"), Lit("he cosa")>>), Lit(" "), Opt(Alt(<<Lit("ho "), Lit("c'è ")>>)), Alt(<<Lit("nel"), Lit("in")>>), Lit(" calendario "), Grp(1, Cat(<<Cls(Range("A", "Z")), Plus(Cls(Word))>>))>>),
           1, "it", "calendar_specific"),
      \* (?:ho )?appuntamenti (?:nel|in|sul) calendario ([A-Z]\w+)
      Rule(Cat(<<Opt(Lit("ho ")), Lit("appuntamenti "), Alt(<<Lit("nel"), Lit("in"), Lit("sul")>>), Lit(" calendario "), Grp(1, Cat(<<Cls(Range("A", "Z")), Plus(Cls(Word))>>))>>),
           1, "it", "calendar_specific"),
      \* mostra(?:mi)? (?:il )?calendario ([A-Z]\w+)
      Rule(Cat(<<Lit("mostra"), Opt(Lit("mi")), Lit(" "), Opt(Lit("il ")), Lit("calendario "), Grp(1, Cat(<<Cls(Range("A", "Z")), Plus(Cls(Word))>>))>>),
           1, "it", "calendar_specific")
    >>,
    \* category system_shutdown (lines 276-281)
    <<
      \* shutdown (?:the )?(?:mac|computer|system)
      Rule(Cat(<<Lit("shutdown "), Opt(Lit("the ")), Alt(<<Lit("mac"), Lit("computer"), Lit("system")>>)>>),
           0, "en", "system_shutdown"),
      \* turn off (?:the )?(?:mac|computer)
      Rule(Cat(<<Lit("turn off "), Opt(Lit("the ")), Alt(<<Lit("mac"), Lit("computer")>>)>>),
           0, "en", "system_shutdown"),
      \* power off (?:the )?mac
      Rule(Cat(<<Lit("power off "), Opt(Lit("the ")), Lit("mac")>>),
           0, "en", "system_shutdown"),
      \* spegni (?:il )?(?:mac|computer)
      Rule(Cat(<<Lit("spegni "), Opt(Lit("il ")), Alt(<<Lit("mac"), Lit("computer")>>)>>),
           0, "it", "system_shutdown"),
      \* arresta (?:il )?sistema
      Rule(Cat(<<Lit("arresta "), Opt(Lit("il ")), Lit("sistema")>>),
           0, "it", "system_shutdown")
    >>,
    \* category system_status (lines 285-290)
    <<
      \* how'?s? (?:the )?(?:pi|raspberry|system)(?: doing)?
      Rule(Cat(<<Lit("how"), Opt(Lit("'")), Opt(Lit("s")), Lit(" "), Opt(Lit("the ")), Alt(<<Lit("pi"), Lit("raspberry"), Lit("system")>>), Opt(Lit(" doing"))>>),
           0, "en", "system_status"),
      \* (?:system|pi) status
      Rule(Cat(<<Alt(<<Lit("system"), Lit("pi")>>), Lit(" status")>>),
           0, "en", "system_status"),
      \* check (?:the )?(?:system|pi)
      Rule(Cat(<<Lit("check "), Opt(Lit("the ")), Alt(<<Lit("system"), Lit("pi")>>)>>),
           0, "en", "system_status"),
      \* come sta (?:il )?(?:pi|sistema)
      Rule(Cat(<<Lit("come sta "), Opt(Lit("il ")), Alt(<<Lit("pi"), Lit("sistema")>>)>>),
           0, "it", "system_status"),
      \* stato (?:del )?sistema
      Rule(Cat(<<Lit("stato "), Opt(Lit("del ")), Lit("sistema")>>),
           0, "it", "system_status")
    >>,
    \* category volume_set (lines 296-300)
    <<
      \* set (?:the )?volume (?:to |at )?(\d+)
      Rule(Cat(<<Lit("set "), Opt(Lit("the ")), Lit("volume "), Opt(Alt(<<Lit("to "), Lit("at ")>>)), Grp(1, Plus(Cls(Digit)))>>),
           1, "en", "volume_set"),
      \* volume (?:to |at )?(\d+)
      Rule(Cat(<<Lit("volume "), Opt(Alt(<<Lit("to "), Lit("at ")>>)), Grp(1, Plus(Cls(Digit)))>>),
           1, "en", "volume_set"),
      \* (?:imposta|metti) (?:il )?volume a (\d+)
      Rule(Cat(<<Alt(<<Lit("imposta"), Lit("metti")>>), Lit(" "), Opt(Lit("il ")), Lit("volume a "), Grp(1, Plus(Cls(Digit)))>>),
           1, "it", "volume_set"),
      \* volume a (\d+)
      Rule(Cat(<<Lit("volume a "), Grp(1, Plus(Cls(Digit)))>>),
           1, "it", "volume_set")
    >>,
    \* category volume_up (lines 304-311)
    <<
      \* volume up(?: (\d+))?
      Rule(Cat(<<Lit("volume up"), Opt(Cat(<<Lit(" "), Grp(1, Plus(Cls(Digit)))>>))>>),
           1, "en", "volume_up"),
      \* (?:turn|crank) (?:the )?volume up(?: (\d+))?
      Rule(Cat(<<Alt(<<Lit("turn"), Lit("crank")>>), Lit(" "), Opt(Lit("the ")), Lit("volume up"), Opt(Cat(<<Lit(" "), Grp(1, Plus(Cls(Digit)))>>))>>),
           1, "en", "volume_up"),
      \* (?:make it )?louder(?: (\d+))?
      Rule(Cat(<<Opt(Lit("make it ")), Lit("louder"), Opt(Cat(<<Lit(" "), Grp(1, Plus(Cls(Digit)))>>))>>),
           1, "en", "volume_up"),
      \* increase (?:the )?volume(?: by )?(\d+)?
      Rule(Cat(<<Lit("increase "), Opt(Lit("the ")), Lit("volume"), Opt(Lit(" by ")), Opt(Grp(1, Plus(Cls(Digit))))>>),
           1, "en", "volume_up"),
      \* alza (?:il )?volume(?: di )?(\d+)?
      Rule(Cat(<<Lit("alza "), Opt(Lit("il ")), Lit("volume"), Opt(Lit(" di ")), Opt(Grp(1, Plus(Cls(Digit))))>>),
           1, "it", "volume_up"),
      \* aumenta (?:il )?volume(?: di )?(\d+)?
      Rule(Cat(<<Lit("aumenta "), Opt(Lit("il ")), Lit("volume"), Opt(Lit(" di ")), Opt(Grp(1, Plus(Cls(Digit))))>>),
           1, "it", "volume_up"),
      \* più forte(?: di )?(\d+)?
      Rule(Cat(<<Lit("più forte"), Opt(Lit(" di ")), Opt(Grp(1, Plus(Cls(Digit))))>>),
           1, "it", "volume_up")
    >>,
    \* category volume_down (lines 315-322)
    <<
      \* volume down(?: (\d+))?
      Rule(Cat(<<Lit("volume down"), Opt(Cat(<<Lit(" "), Grp(1, Plus(Cls(Digit)))>>))>>),
           1, "en", "volume_down"),
      \* (?:turn|lower) (?:the )?volume down(?: (\d+))?
      Rule(Cat(<<Alt(<<Lit("turn"), Lit("lower")>>), Lit(" "), Opt(Lit("the ")), Lit("volume down"), Opt(Cat(<<Lit(" "), Grp(1, Plus(Cls(Digit)))>>))>>),
           1, "en", "volume_down"),
      \* (?:make it )?quieter(?: (\d+))?
      Rule(Cat(<<Opt(Lit("make it ")), Lit("quieter"), Opt(Cat(<<Lit(" "), Grp(1, Plus(Cls(Digit)))>>))>>),
           1, "en", "volume_down"),
      \* decrease (?:the )?volume(?: by )?(\d+)?
      Rule(Cat(<<Lit("decrease "), Opt(Lit("the ")), Lit("volume"), Opt(Lit(" by ")), Opt(Grp(1, Plus(Cls(Digit))))>>),
           1, "en", "volume_down"),
      \* abbassa (?:il )?volume(?: di )?(\d+)?
      Rule(Cat(<<Lit("abbassa "), Opt(Lit("il ")), Lit("volume"), Opt(Lit(" di ")), Opt(Grp(1, Plus(Cls(Digit))))>>),
           1, "it", "volume_down"),
      \* diminuisci (?:il )?volume(?: di )?(\d+)?
      Rule(Cat(<<Lit("diminuisci "), Opt(Lit("il ")), Lit("volume"), Opt(Lit(" di ")), Opt(Grp(1, Plus(Cls(Digit))))>>),
           1, "it", "volume_down"),
      \* più piano(?: di )?(\d+)?
      Rule(Cat(<<Lit("più piano"), Opt(Lit(" di ")), Opt(Grp(1, Plus(Cls(Digit))))>>),
           1, "it", "volume_down")
    >>,
    \* category mac_close_app (lines 328-333)
    <<
      \* close (.+?)$
      Rule(Cat(<<Lit("close "), Grp(1, LazyPlus(Dot)), Eol>>),
           1, "en", "mac_close_app"),
      \* quit (.+?)$
      Rule(Cat(<<Lit("quit "), Grp(1, LazyPlus(Dot)), Eol>>),
           1, "en", "mac_close_app"),
      \* exit (.+?)$
      Rule(Cat(<<Lit("exit "), Grp(1, LazyPlus(Dot)), Eol>>),
           1, "en", "mac_close_app"),
      \* chiudi (.+?)$
      Rule(Cat(<<Lit("chiudi "), Grp(1, LazyPlus(Dot)), Eol>>),
           1, "it", "mac_close_app"),
      \* esci da (.+?)$
      Rule(Cat(<<Lit("esci da "), Grp(1, LazyPlus(Dot)), Eol>>),
           1, "it", "mac_close_app")
    >>,
    \* category mac_open_app (lines 337-342)
    <<
      \* open (.+?)(?:\s+on.*)?$
      Rule(Cat(<<Lit("open "), Grp(1, LazyPlus(Dot)), Opt(Cat(<<Plus(Cls(Space)), Lit("on"), Star(Dot)>>)), Eol>>),
           1, "en", "mac_open_app"),
      \* launch (.+?)$
      Rule(Cat(<<Lit("launch "), Grp(1, LazyPlus(Dot)), Eol>>),
           1, "en", "mac_open_app"),
      \* start (.+?)$
      Rule(Cat(<<Lit("start "), Grp(1, LazyPlus(Dot)), Eol>>),
           1, "en", "mac_open_app"),
      \* apri (.+?)(?:\s+sul.*)?$
      Rule(Cat(<<Lit("apri "), Grp(1, LazyPlus(Dot)), Opt(Cat(<<Plus(Cls(Space)), Lit("sul"), Star(Dot)>>)), Eol>>),
           1, "it", "mac_open_app"),
      \* avvia (.+?)$
      Rule(Cat(<<Lit("avvia "), Grp(1, LazyPlus(Dot)), Eol>>),
           1, "it", "mac_open_app")
    >>,
    \* category mac_volume (lines 346-351)
    <<
      \* set volume to (\d+)
      Rule(Cat(<<Lit("set volume to "), Grp(1, Plus(Cls(Digit)))>>),
           1, "en", "mac_volume"),
      \* (?:turn )?volume (?:to |at )?(\d+)
      Rule(Cat(<<Opt(Lit("turn ")), Lit("volume "), Opt(Alt(<<Lit("to "), Lit("at ")>>)), Grp(1, Plus(Cls(Digit)))>>),
           1, "en", "mac_volume"),
      \* (?:make it |set )?(?:louder|quieter|mute)
      Rule(Cat(<<Opt(Alt(<<Lit("make it "), Lit("set ")>>)), Alt(<<Lit("louder"), Lit("quieter"), Lit("mute")>>)>>),
           0, "en", "mac_volume"),
      \* (?:imposta |metti )?volume a (\d+)
      Rule(Cat(<<Opt(Alt(<<Lit("imposta "), Lit("metti ")>>)), Lit("volume a "), Grp(1, Plus(Cls(Digit)))>>),
           1, "it", "mac_volume"),
      \* (?:alza|abbassa|silenzia) (?:il )?volume
      Rule(Cat(<<Alt(<<Lit("alza"), Lit("abbassa"), Lit("silenzia")>>), Lit(" "), Opt(Lit("il ")), Lit("volume")>>),
           0, "it", "mac_volume")
    >>,
    \* category mac_sleep (lines 355-359)
    <<
      \* (?:put )?(?:the )?mac to sleep
      Rule(Cat(<<Opt(Lit("put ")), Opt(Lit("the ")), Lit("mac to sleep")>>),
           0, "en", "mac_sleep"),
      \* sleep (?:the )?(?:mac|computer)
      Rule(Cat(<<Lit("sleep "), Opt(Lit("the ")), Alt(<<Lit("mac"), Lit("computer")>>)>>),
           0, "en", "mac_sleep"),
      \* metti (?:il )?mac in (?:sleep|stop|pausa)
      Rule(Cat(<<Lit("metti "), Opt(Lit("il ")), Lit("mac in "), Alt(<<Lit("sleep"), Lit("stop"), Lit("pausa")>>)>>),
           0, "it", "mac_sleep"),
      \* sospendi (?:il )?(?:mac|computer)
      Rule(Cat(<<Lit("sospendi "), Opt(Lit("il ")), Alt(<<Lit("mac"), Lit("computer")>>)>>),
           0, "it", "mac_sleep")
    >>,
    \* category mac_lock (lines 363-367)
    <<
      \* lock (?:the )?(?:screen|mac|computer)
      Rule(Cat(<<Lit("lock "), Opt(Lit("the ")), Alt(<<Lit("screen"), Lit("mac"), Lit("computer")>>)>>),
           0, "en", "mac_lock"),
      \* lock it
      Rule(Lit("lock it"),
           0, "en", "mac_lock"),
      \* blocca (?:lo )?schermo
      Rule(Cat(<<Lit("blocca "), Opt(Lit("lo ")), Lit("schermo")>>),
           0, "it", "mac_lock"),
      \* blocca (?:il )?mac
      Rule(Cat(<<Lit("blocca "), Opt(Lit("il ")), Lit("mac")>>),
           0, "it", "mac_lock")
    >>,
    \* category telegram_send (lines 373-378)
    <<
      \* send (?:a )?telegram (?:message )?to (.+?) saying (.+)
      Rule(Cat(<<Lit("send "), Opt(Lit("a ")), Lit("telegram "), Opt(Lit("message ")), Lit("to "), Grp(1, LazyPlus(Dot)), Lit(" saying "), Grp(2, Plus(Dot))>>),
           2, "en", "telegram_send"),
      \* telegram (.+?) (?:saying|that) (.+)
      Rule(Cat(<<Lit("telegram "), Grp(1, LazyPlus(Dot)), Lit(" "), Alt(<<Lit("saying"), Lit("that")>>), Lit(" "), Grp(2, Plus(Dot))>>),
           2, "en", "telegram_send"),
      \* message (.+?) on telegram (.+)
      Rule(Cat(<<Lit("message "), Grp(1, LazyPlus(Dot)), Lit(" on telegram "), Grp(2, Plus(Dot))>>),
           2, "en", "telegram_send"),
      \* manda (?:un )?telegram a (.+?) (?:e )?(?:dicendo|che dice|di(?:gli|lle|mmi|ci|vi)) (.+)
      Rule(Cat(<<Lit("manda "), Opt(Lit("un ")), Lit("telegram a "), Grp(1, LazyPlus(Dot)), Lit(" "), Opt(Lit("e ")), Alt(<<Lit("dicendo"), Lit("che dice"), Cat(<<Lit("di"), Alt(<<Lit("gli"), Lit("lle"), Lit("mmi"), Lit("ci"), Lit("vi")>>)>>)>>), Lit(" "), Grp(2, Plus(Dot))>>),
           2, "it", "telegram_send"),
      \* invia messaggio telegram a (.+?) (?:e )?(?:dicendo|di(?:gli|lle|mmi|ci|vi))? (.+)
      Rule(Cat(<<Lit("invia messaggio telegram a "), Grp(1, LazyPlus(Dot)), Lit(" "), Opt(Lit("e ")), Opt(Cat(<<Lit("di"), Alt(<<Lit("cendo"), Alt(<<Lit("gli"), Lit("lle"), Lit("mmi"), Lit("ci"), Lit("vi")>>)>>)>>)), Lit(" "), Grp(2, Plus(Dot))>>),
           2, "it", "telegram_send")
    >>,
    \* category telegram_check (lines 382-386)
    <<
      \* check (?:my )?(?:telegram|telegram messages?)
      Rule(Cat(<<Lit("check "), Opt(Lit("my ")), Lit("telegram"), Alt(<<Cat(<<>>), Cat(<<Lit(" message"), Opt(Lit("s"))>>)>>)>>),
           0, "en", "telegram_check"),
      \* (?:do i have |any )(?:new )?telegram messages?
      Rule(Cat(<<Alt(<<Lit("do i have "), Lit("any ")>>), Opt(Lit("new ")), Lit("telegram message"), Opt(Lit("s"))>>),
           0, "en", "telegram_check"),
      \* (?:ho |controlla )(?:nuovi )?messaggi (?:su )?telegram
      Rule(Cat(<<Alt(<<Lit("ho "), Lit("controlla ")>>), Opt(Lit("nuovi ")), Lit("messaggi "), Opt(Lit("su ")), Lit("telegram")>>),
           0, "it", "telegram_check"),
      \* (?:ci sono )?messaggi (?:su )?telegram
      Rule(Cat(<<Opt(Lit("ci sono ")), Lit("messaggi "), Opt(Lit("su ")), Lit("telegram")>>),
           0, "it", "telegram_check")
    >>,
    \* category telegram_read (lines 390-394)
    <<
      \* read (?:my )?(?:latest |last |recent )?telegram (?:messages?)?(?: from (.+))?
      Rule(Cat(<<Lit("read "), Opt(Lit("my ")), Opt(Alt(<<Lit("latest "), Lit("last "), Lit("recent ")>>)), Lit("telegram "), Opt(Cat(<<Lit("message"), Opt(Lit("s"))>>)), Opt(Cat(<<Lit(" from "), Grp(1, Plus(Dot))>>))>>),
           1, "en", "telegram_read"),
      \* show me telegram messages? from (.+)
      Rule(Cat(<<Lit("show me telegram message"), Opt(Lit("s")), Lit(" from "), Grp(1, Plus(Dot))>>),
           1, "en", "telegram_read"),
      \* leggi (?:i miei|gli )?(?:ultimi )?messaggi telegram(?: di (.+))?
      Rule(Cat(<<Lit("leggi "), Opt(Alt(<<Lit("i miei"), Lit("gli ")>>)), Opt(Lit("ultimi ")), Lit("messaggi telegram"), Opt(Cat(<<Lit(" di "), Grp(1, Plus(Dot))>>))>>),
           1, "it", "telegram_read"),
      \* mostrami (?:i )?messaggi telegram di (.+)
      Rule(Cat(<<Lit("mostrami "), Opt(Lit("i ")), Lit("messaggi telegram di "), Grp(1, Plus(Dot))>>),
           1, "it", "telegram_read")
    >>,
    \* category whatsapp_send (lines 398-403)
    <<
      \* send (?:a )?whatsapp (?:message )?to (.+?) saying (.+)
      Rule(Cat(<<Lit("send "), Opt(Lit("a ")), Lit("whatsapp "), Opt(Lit("message ")), Lit("to "), Grp(1, LazyPlus(Dot)), Lit(" saying "), Grp(2, Plus(Dot))>>),
           2, "en", "whatsapp_send"),
      \* whatsapp (.+?) (?:saying|that) (.+)
      Rule(Cat(<<Lit("whatsapp "), Grp(1, LazyPlus(Dot)), Lit(" "), Alt(<<Lit("saying"), Lit("that")>>), Lit(" "), Grp(2, Plus(Dot))>>),
           2, "en", "whatsapp_send"),
      \* message (.+?) on whatsapp (.+)
      Rule(Cat(<<Lit("message "), Grp(1, LazyPlus(Dot)), Lit(" on whatsapp "), Grp(2, Plus(Dot))>>),
           2, "en", "whatsapp_send"),
      \* manda (?:un )?whatsapp a (.+?) (?:e )?(?:dicendo|che dice|di(?:gli|lle|mmi|ci|vi)) (.+)
      Rule(Cat(<<Lit("manda "), Opt(Lit("un ")), Lit("whatsapp a "), Grp(1, LazyPlus(Dot)), Lit(" "), Opt(Lit("e ")), Alt(<<Lit("dicendo"), Lit("che dice"), Cat(<<Lit("di"), Alt(<<Lit("gli"), Lit("lle"), Lit("mmi"), Lit("ci"), Lit("vi")>>)>>)>>), Lit(" "), Grp(2, Plus(Dot))>>),
           2, "it", "whatsapp_send"),
      \* invia messaggio whatsapp a (.+?) (?:e )?(?:dicendo|di(?:gli|lle|mmi|ci|vi))? (.+)
      Rule(Cat(<<Lit("invia messaggio whatsapp a "), Grp(1, LazyPlus(Dot)), Lit(" "), Opt(Lit("e ")), Opt(Cat(<<Lit("di"), Alt(<<Lit("cendo"), Alt(<<Lit("gli"), Lit("lle"), Lit("mmi"), Lit("ci"), Lit("vi")>>)>>)>>)), Lit(" "), Grp(2, Plus(Dot))>>),
           2, "it", "whatsapp_send")
    >>,
    \* category whatsapp_check (lines 407-411)
    <<
      \* check (?:my )?(?:whatsapp|whatsapp messages?)
      Rule(Cat(<<Lit("check "), Opt(Lit("my ")), Lit("whatsapp"), Alt(<<Cat(<<>>), Cat(<<Lit(" message"), Opt(Lit("s"))>>)>>)>>),
           0, "en", "whatsapp_check"),
      \* (?:do i have |any )(?:new )?whatsapp messages?
      Rule(Cat(<<Alt(<<Lit("do i have "), Lit("any ")>>), Opt(Lit("new ")), Lit("whatsapp message"), Opt(Lit("s"))>>),
           0, "en", "whatsapp_check"),
      \* (?:ho |controlla )(?:nuovi )?messaggi (?:su )?whatsapp
      Rule(Cat(<<Alt(<<Lit("ho "), Lit("controlla ")>>), Opt(Lit("nuovi ")), Lit("messaggi "), Opt(Lit("su ")), Lit("whatsapp")>>),
           0, "it", "whatsapp_check"),
      \* (?:ci sono )?messaggi (?:su )?whatsapp
      Rule(Cat(<<Opt(Lit("ci sono ")), Lit("messaggi "), Opt(Lit("su ")), Lit("whatsapp")>>),
           0, "it", "whatsapp_check")
    >>,
    \* category whatsapp_read (lines 415-419)
    <<
      \* read (?:my )?(?:latest |last |recent )?whatsapp (?:messages?)?(?: from (.+))?
      Rule(Cat(<<Lit("read "), Opt(Lit("my ")), Opt(Alt(<<Lit("latest "), Lit("last "), Lit("recent ")>>)), Lit("whatsapp "), Opt(Cat(<<Lit("message"), Opt(Lit("s"))>>)), Opt(Cat(<<Lit(" from "), Grp(1, Plus(Dot))>>))>>),
           1, "en", "whatsapp_read"),
      \* show me whatsapp messages? from (.+)
      Rule(Cat(<<Lit("show me whatsapp message"), Opt(Lit("s")), Lit(" from "), Grp(1, Plus(Dot))>>),
           1, "en", "whatsapp_read"),
      \* leggi (?:i )?(?:ultimi )?messaggi whatsapp(?: di (.+))?
      Rule(Cat(<<Lit("leggi "), Opt(Lit("i ")), Opt(Lit("ultimi ")), Lit("messaggi whatsapp"), Opt(Cat(<<Lit(" di "), Grp(1, Plus(Dot))>>))>>),
           1, "it", "whatsapp_read"),
      \* mostrami (?:i )?messaggi whatsapp di (.+)
      Rule(Cat(<<Lit("mostrami "), Opt(Lit("i ")), Lit("messaggi whatsapp di "), Grp(1, Plus(Dot))>>),
           1, "it", "whatsapp_read")
    >>,
    \* category translate (lines 425-429)
    <<
      \* translate (.+?) (?:to|into) (\w+)
      Rule(Cat(<<Lit("translate "), Grp(1, LazyPlus(Dot)), Lit(" "), Alt(<<Lit("to"), Lit("into")>>), Lit(" "), Grp(2, Plus(Cls(Word)))>>),
           2, "en", "translate"),
      \* how do you say (.+?) in (\w+)
      Rule(Cat(<<Lit("how do you say "), Grp(1, LazyPlus(Dot)), Lit(" in "), Grp(2, Plus(Cls(Word)))>>),
           2, "en", "translate"),
      \* traduci (.+?) in (\w+)
      Rule(Cat(<<Lit("traduci "), Grp(1, LazyPlus(Dot)), Lit(" in "), Grp(2, Plus(Cls(Word)))>>),
           2, "it", "translate"),
      \* come si dice (.+?) in (\w+)
      Rule(Cat(<<Lit("come si dice "), Grp(1, LazyPlus(Dot)), Lit(" in "), Grp(2, Plus(Cls(Word)))>>),
           2, "it", "translate")
    >>,
    \* category calculate (lines 433-449)
    <<
      \* calculate (.+)
      Rule(Cat(<<Lit("calculate "), Grp(1, Plus(Dot))>>),
           1, "en", "calculate"),
      \* compute (.+)
      Rule(Cat(<<Lit("compute "), Grp(1, Plus(Dot))>>),
           1, "en", "calculate"),
      \* what(?:'s| is) (\d+[\d\s\+\-\*\/\%\.]+)
      Rule(Cat(<<Lit("what"), Alt(<<Lit("'s"), Lit(" is")>>), Lit(" "), Grp(1, Cat(<<Plus(Cls(Digit)), Plus(Cls(Digit \cup Space \cup {"+", "-", "*", "/", "%", "."}))>>))>>),
           1, "en", "calculate"),
      \* what(?:'s| is) (\d+)% of (.+)
      Rule(Cat(<<Lit("what"), Alt(<<Lit("'s"), Lit(" is")>>), Lit(" "), Grp(1, Plus(Cls(Digit))), Lit("% of "), Grp(2, Plus(Dot))>>),
           2, "en", "calculate"),
      \* calcola (.+)
      Rule(Cat(<<Lit("calcola "), Grp(1, Plus(Dot))>>),
           1, "it", "calculate"),
      \* quanto (?:fa|è) (.+)
      Rule(Cat(<<Lit("quanto "), Alt(<<Lit("fa"), Lit("è")>>), Lit(" "), Grp(1, Plus(Dot))>>),
           1, "it", "calculate"),
      \* (?:il|la) (\d+(?:\.\d+)?)%\s*(?:di|del) (.+)
      Rule(Cat(<<Alt(<<Lit("il"), Lit("la")>>), Lit(" "), Grp(1, Cat(<<Plus(Cls(Digit)), Opt(Cat(<<Lit("."), Plus(Cls(Digit))>>))>>)), Lit("%"), Star(Cls(Space)), Lit("d"), Alt(<<Lit("i"), Lit("el")>>), Lit(" "), Grp(2, Plus(Dot))>>),
           2, "it", "calculate"),
      \* ^(\d+(?:\.\d+)?\s*(?:più|meno|per|diviso)\s*\d+(?:\.\d+)?)
      Rule(Cat(<<Bol, Grp(1, Cat(<<Plus(Cls(Digit)), Opt(Cat(<<Lit("."), Plus(Cls(Digit))>>)), Star(Cls(Space)), Alt(<<Lit("più"), Lit("meno"), Lit("per"), Lit("diviso")>>), Star(Cls(Space)), Plus(Cls(Digit)), Opt(Cat(<<Lit("."), Plus(Cls(Digit))>>))>>))>>),
           1, "it", "calculate"),
      \* ^([a-z]+\s+(?:plus|minus|times|over|divided by)\s+[a-z]+)
      Rule(Cat(<<Bol, Grp(1, Cat(<<Plus(Cls(Range("a", "z"))), Plus(Cls(Space)), Alt(<<Lit("plus"), Lit("minus"), Lit("times"), Lit("over"), Lit("divided by")>>), Plus(Cls(Space)), Plus(Cls(Range("a", "z")))>>))>>),
           1, "en", "calculate"),
      \* ^(\d+(?:\.\d+)?\s+divided\s+by\s+\d+(?:\.\d+)?)
      Rule(Cat(<<Bol, Grp(1, Cat(<<Plus(Cls(Digit)), Opt(Cat(<<Lit("."), Plus(Cls(Digit))>>)), Plus(Cls(Space)), Lit("divided"), Plus(Cls(Space)), Lit("by"), Plus(Cls(Space)), Plus(Cls(Digit)), Opt(Cat(<<Lit("."), Plus(Cls(Digit))>>))>>))>>),
           1, "en", "calculate"),
      \* ^(\d+[\d\s\+\-\*\/x×÷\%\.]+\d+)
      Rule(Cat(<<Bol, Grp(1, Cat(<<Plus(Cls(Digit)), Plus(Cls(Digit \cup Space \cup {"+", "-", "*", "/", "x", "×", "÷", "%", "."})), Plus(Cls(Digit))>>))>>),
           1, "en", "calculate")
    >>,
    \* category joke (lines 453-459)
    <<
      \* tell me a joke
      Rule(Lit("tell me a joke"),
           0, "en", "joke"),
      \* make me laugh
      Rule(Lit("make me laugh"),
           0, "en", "joke"),
      \* (?:say )?something funny
      Rule(Cat(<<Opt(Lit("say ")), Lit("something funny")>>),
           0, "en", "joke"),
      \* dimmi una battuta
      Rule(Lit("dimmi una battuta"),
           0, "it", "joke"),
      \* raccontami (?:una barzelletta|uno scherzo)
      Rule(Cat(<<Lit("raccontami un"), Alt(<<Lit("a barzelletta"), Lit("o scherzo")>>)>>),
           0, "it", "joke"),
      \* fammi ridere
      Rule(Lit("fammi ridere"),
           0, "it", "joke")
    >>,
    \* category news (lines 465-471)
    <<
      \* what'?s? (?:the )?(?:latest )?news
      Rule(Cat(<<Lit("what"), Opt(Lit("'")), Opt(Lit("s")), Lit(" "), Opt(Lit("the ")), Opt(Lit("latest ")), Lit("news")>>),
           0, "en", "news"),
      \* (?:give me |tell me )?(?:the )?(?:news|headlines)
      Rule(Cat(<<Opt(Alt(<<Lit("give me "), Lit("tell me ")>>)), Opt(Lit("the ")), Alt(<<Lit("news"), Lit("headlines")>>)>>),
           0, "en", "news"),
      \* any news
      Rule(Lit("any news"),
           0, "en", "news"),
      \* (?:quali sono |dammi )?(?:le )?(?:ultime )?notizie
      Rule(Cat(<<Opt(Alt(<<Lit("quali sono "), Lit("dammi ")>>)), Opt(Lit("le ")), Opt(Lit("ultime ")), Lit("notizie")>>),
           0, "it", "news"),
      \* che notizie ci sono
      Rule(Lit("che notizie ci sono"),
           0, "it", "news"),
      \* novità
      Rule(Lit("novità"),
           0, "it", "news")
    >>,
    \* category finance (lines 477-485)
    <<
      \* (?:my )?(?:finance |financial )?watchlist
      Rule(Cat(<<Opt(Lit("my ")), Opt(Cat(<<Lit("financ"), Alt(<<Lit("e "), Lit("ial ")>>)>>)), Lit("watchlist")>>),
           0, "en", "finance_watchlist"),
      \* (?:check |show )?(?:my )?(?:stocks|investments|portfolio)
      Rule(Cat(<<Opt(Alt(<<Lit("check "), Lit("show ")>>)), Opt(Lit("my ")), Alt(<<Lit("stocks"), Lit("investments"), Lit("portfolio")>>)>>),
           0, "en", "finance_watchlist"),
      \* how(?:'s| are) (?:my )?(?:stocks|investments)
      Rule(Cat(<<Lit("how"), Alt(<<Lit("'s"), Lit(" are")>>), Lit(" "), Opt(Lit("my ")), Alt(<<Lit("stocks"), Lit("investments")>>)>>),
           0, "en", "finance_watchlist"),
      \* market (?:update|summary)
      Rule(Cat(<<Lit("market "), Alt(<<Lit("update"), Lit("summary")>>)>>),
           0, "en", "finance_watchlist"),
      \* (?:i miei )?investimenti
      Rule(Cat(<<Opt(Lit("i miei ")), Lit("investimenti")>>),
           0, "it", "finance_watchlist"),
      \* (?:le mie )?azioni
      Rule(Cat(<<Opt(Lit("le mie ")), Lit("azioni")>>),
           0, "it", "finance_watchlist"),
      \* come vanno (?:le azioni|gli investimenti)
      Rule(Cat(<<Lit("come vanno "), Alt(<<Lit("le azioni"), Lit("gli investimenti")>>)>>),
           0, "it", "finance_watchlist"),
      \* mercati
      Rule(Lit("mercati"),
           0, "it", "finance_watchlist")
    >>,
    \* category recipe_search (lines 491-497)
    <<
      \* (?:find |search |show me )?(?:a )?recipe(?:s)? (?:for |with )?(.+)
      Rule(Cat(<<Opt(Alt(<<Lit("find "), Lit("search "), Lit("show me ")>>)), Opt(Lit("a ")), Lit("recipe"), Opt(Lit("s")), Lit(" "), Opt(Alt(<<Lit("for "), Lit("with ")>>)), Grp(1, Plus(Dot))>>),
           1, "en", "recipe_search"),
      \* how (?:do i |to )?(?:make|cook) (.+)
      Rule(Cat(<<Lit("how "), Opt(Alt(<<Lit("do i "), Lit("to ")>>)), Alt(<<Lit("make"), Lit("cook")>>), Lit(" "), Grp(1, Plus(Dot))>>),
           1, "en", "recipe_search"),
      \* (?:i want to |i'll )(?:make|cook) (.+)
      Rule(Cat(<<Lit("i"), Alt(<<Lit(" want to "), Lit("'ll ")>>), Alt(<<Lit("make"), Lit("cook")>>), Lit(" "), Grp(1, Plus(Dot))>>),
           1, "en", "recipe_search"),
      \* (?:cerca |trova |mostrami )?(?:una )?ricetta (?:per |di |con )?(.+)
      Rule(Cat(<<Opt(Alt(<<Lit("cerca "), Lit("trova "), Lit("mostrami ")>>)), Opt(Lit("una ")), Lit("ricetta "), Opt(Alt(<<Lit("per "), Lit("di "), Lit("con ")>>)), Grp(1, Plus(Dot))>>),
           1, "it", "recipe_search"),
      \* come (?:si )?(?:fa|cucina|prepara) (.+)
      Rule(Cat(<<Lit("come "), Opt(Lit("si ")), Alt(<<Lit("fa"), Lit("cucina"), Lit("prepara")>>), Lit(" "), Grp(1, Plus(Dot))>>),
           1, "it", "recipe_search"),
      \* voglio (?:fare|cucinare|preparare) (.+)
      Rule(Cat(<<Lit("voglio "), Alt(<<Lit("fare"), Lit("cucinare"), Lit("preparare")>>), Lit(" "), Grp(1, Plus(Dot))>>),
           1, "it", "recipe_search")
    >>,
    \* category recipe_random (lines 501-507)
    <<
      \* (?:give me |suggest |show me )?(?:a )?random recipe
      Rule(Cat(<<Opt(Alt(<<Lit("give me "), Lit("suggest "), Lit("show me ")>>)), Opt(Lit("a ")), Lit("random recipe")>>),
           0, "en", "recipe_random"),
      \* (?:what|something) (?:should i |can i |to )(?:cook|make|eat)
      Rule(Cat(<<Alt(<<Lit("what"), Lit("something")>>), Lit(" "), Alt(<<Lit("should i "), Lit("can i "), Lit("to ")>>), Alt(<<Lit("cook"), Lit("make"), Lit("eat")>>)>>),
           0, "en", "recipe_random"),
      \* recipe idea
      Rule(Lit("recipe idea"),
           0, "en", "recipe_random"),
      \* ricetta (?:a )?caso
      Rule(Cat(<<Lit("ricetta "), Opt(Lit("a ")), Lit("caso")>>),
           0, "it", "recipe_random"),
      \* (?:cosa |che cosa )?(?:posso |dovrei )?(?:cucinare|preparare|mangiare)
      Rule(Cat(<<Opt(Cat(<<Lit("c"), Alt(<<Lit("osa "), Lit("he cosa ")>>)>>)), Opt(Alt(<<Lit("posso "), Lit("dovrei ")>>)), Alt(<<Lit("cucinare"), Lit("preparare"), Lit("mangiare")>>)>>),
           0, "it", "recipe_random"),
      \* suggerimento ricetta
      Rule(Lit("suggerimento ricetta"),
           0, "it", "recipe_random")
    >>,
    \* category transport_car (lines 513-526)
    <<
      \* (?:get to|arrive at) (.+?) (?:by|at) (\d{1,2}(?::\d{2})?(?: ?(?:am|pm))?)(?: by car)?
      Rule(Cat(<<Alt(<<Lit("get to"), Lit("arrive at")>>), Lit(" "), Grp(1, LazyPlus(Dot)), Lit(" "), Alt(<<Lit("by"), Lit("at")>>), Lit(" "), Grp(2, Cat(<<Rep(1, 2, Cls(Digit)), Opt(Cat(<<Lit(":"), Rep(2, 2, Cls(Digit))>>)), Opt(Cat(<<Opt(Lit(" ")), Alt(<<Lit("am"), Lit("pm")>>)>>))>>)), Opt(Lit(" by car"))>>),
           2, "en", "transport_car"),
      \* traffic to (.+?) (?:to arrive )?(?:by|at) (\d{1,2}(?::\d{2})?(?: ?(?:am|pm))?)
      Rule(Cat(<<Lit("traffic to "), Grp(1, LazyPlus(Dot)), Lit(" "), Opt(Lit("to arrive ")), Alt(<<Lit("by"), Lit("at")>>), Lit(" "), Grp(2, Cat(<<Rep(1, 2, Cls(Digit)), Opt(Cat(<<Lit(":"), Rep(2, 2, Cls(Digit))>>)), Opt(Cat(<<Opt(Lit(" ")), Alt(<<Lit("am"), Lit("pm")>>)>>))>>))>>),
           2, "en", "transport_car"),
      \* how long (?:to get )?to (.+?) (?:by car)?
      Rule(Cat(<<Lit("how long "), Opt(Lit("to get ")), Lit("to "), Grp(1, LazyPlus(Dot)), Lit(" "), Opt(Lit("by car"))>>),
           1, "en", "transport_car"),
      \* (?:driving )?(?:time|traffic) to (.+)
      Rule(Cat(<<Opt(Lit("driving ")), Lit("t"), Alt(<<Lit("ime"), Lit("raffic")>>), Lit(" to "), Grp(1, Plus(Dot))>>),
           1, "en", "transport_car"),
      \* how's (?:the )?traffic to (.+)
      Rule(Cat(<<Lit("how's "), Opt(Lit("the ")), Lit("traffic to "), Grp(1, Plus(Dot))>>),
           1, "en", "transport_car"),
      \* route to (.+)
      Rule(Cat(<<Lit("route to "), Grp(1, Plus(Dot))>>),
           1, "en", "transport_car"),
      \* arrivare a (.+?) (?:alle|per le) (\d{1,2}(?::\d{2})?)(?: in macchina)?
      Rule(Cat(<<Lit("arrivare a "), Grp(1, LazyPlus(Dot)), Lit(" "), Alt(<<Lit("alle"), Lit("per le")>>), Lit(" "), Grp(2, Cat(<<Rep(1, 2, Cls(Digit)), Opt(Cat(<<Lit(":"), Rep(2, 2, Cls(Digit))>>))>>)), Opt(Lit(" in macchina"))>>),
           2, "it", "transport_car"),
      \* traffico (?:per |verso )?(.+?) per arrivare alle (\d{1,2}(?::\d{2})?)
      Rule(Cat(<<Lit("traffico "), Opt(Alt(<<Lit("per "), Lit("verso ")>>)), Grp(1, LazyPlus(Dot)), Lit(" per arrivare alle "), Grp(2, Cat(<<Rep(1, 2, Cls(Digit)), Opt(Cat(<<Lit(":"), Rep(2, 2, Cls(Digit))>>))>>))>>),
           2, "it", "transport_car"),
      \* quanto (?:ci vuole|tempo) per (?:andare a |arrivare a )?(.+?)(?: in macchina)?
      Rule(Cat(<<Lit("quanto "), Alt(<<Lit("ci vuole"), Lit("tempo")>>), Lit(" per "), Opt(Cat(<<Lit("a"), Alt(<<Lit("ndare a "), Lit("rrivare a ")>>)>>)), Grp(1, LazyPlus(Dot)), Opt(Lit(" in macchina"))>>),
           1, "it", "transport_car"),
      \* traffico (?:per |verso )?(.+)
      Rule(Cat(<<Lit("traffico "), Opt(Alt(<<Lit("per "), Lit("verso ")>>)), Grp(1, Plus(Dot))>>),
           1, "it", "transport_car"),
      \* strada per (.+)
      Rule(Cat(<<Lit("strada per "), Grp(1, Plus(Dot))>>),
           1, "it", "transport_car")
    >>,
    \* category transport_public (lines 530-544)
    <<
      \* (?:get to|arrive at) (.+?) (?:by|at) (\d{1,2}(?::\d{2})?(?: ?(?:am|pm))?) (?:by )?(?:bus|train|public (?:transit|transport))
      Rule(Cat(<<Alt(<<Lit("get to"), Lit("arrive at")>>), Lit(" "), Grp(1, LazyPlus(Dot)), Lit(" "), Alt(<<Lit("by"), Lit("at")>>), Lit(" "), Grp(2, Cat(<<Rep(1, 2, Cls(Digit)), Opt(Cat(<<Lit(":"), Rep(2, 2, Cls(Digit))>>)), Opt(Cat(<<Opt(Lit(" ")), Alt(<<Lit("am"), Lit("pm")>>)>>))>>)), Lit(" "), Opt(Lit("by ")), Alt(<<Lit("bus"), Lit("train"), Cat(<<Lit("public trans"), Alt(<<Lit("it"), Lit("port")>>)>>)>>)>>),
           2, "en", "transport_public"),
      \* when (?:should i |do i need to |to )leave (?:for |to get to )?(.+?) (?:by|at) (\d{1,2}(?::\d{2})?(?: ?(?:am|pm))?)
      Rule(Cat(<<Lit("when "), Alt(<<Lit("should i "), Lit("do i need to "), Lit("to ")>>), Lit("leave "), Opt(Alt(<<Lit("for "), Lit("to get to ")>>)), Grp(1, LazyPlus(Dot)), Lit(" "), Alt(<<Lit("by"), Lit("at")>>), Lit(" "), Grp(2, Cat(<<Rep(1, 2, Cls(Digit)), Opt(Cat(<<Lit(":"), Rep(2, 2, Cls(Digit))>>)), Opt(Cat(<<Opt(Lit(" ")), Alt(<<Lit("am"), Lit("pm")>>)>>))>>))>>),
           2, "en", "transport_public"),
      \* (?:public )?(?:transit|transport|bus|train) to (.+?) (?:by|at) (\d{1,2}(?::\d{2})?(?: ?(?:am|pm))?)
      Rule(Cat(<<Opt(Lit("public ")), Alt(<<Lit("transit"), Lit("transport"), Lit("bus"), Lit("train")>>), Lit(" to "), Grp(1, LazyPlus(Dot)), Lit(" "), Alt(<<Lit("by"), Lit("at")>>), Lit(" "), Grp(2, Cat(<<Rep(1, 2, Cls(Digit)), Opt(Cat(<<Lit(":"), Rep(2, 2, Cls(Digit))>>)), Opt(Cat(<<Opt(Lit(" ")), Alt(<<Lit("am"), Lit("pm")>>)>>))>>))>>),
           2, "en", "transport_public"),
      \* (?:public )?(?:transit|transport|bus|train) to (.+)
      Rule(Cat(<<Opt(Lit("public ")), Alt(<<Lit("transit"), Lit("transport"), Lit("bus"), Lit("train")>>), Lit(" to "), Grp(1, Plus(Dot))>>),
           1, "en", "transport_public"),
      \* how (?:do i |can i |to )get to (.+?)(?: by (?:bus|train|public transport))?
      Rule(Cat(<<Lit("how "), Alt(<<Lit("do i "), Lit("can i "), Lit("to ")>>), Lit("get to "), Grp(1, LazyPlus(Dot)), Opt(Cat(<<Lit(" by "), Alt(<<Lit("bus"), Lit("train"), Lit("public transport")>>)>>))>>),
           1, "en", "transport_public"),
      \* when (?:should i |do i need to )leave (?:for |to get to )?(.+?)(?:\?)?$
      Rule(Cat(<<Lit("when "), Alt(<<Lit("should i "), Lit("do i need to ")>>), Lit("leave "), Opt(Alt(<<Lit("for "), Lit("to get to ")>>)), Grp(1, LazyPlus(Dot)), Opt(Lit("?")), Eol>>),
           1, "en", "transport_public"),
      \* quando devo partire per (?:andare a )?(.+?) per arrivare alle (\d{1,2}(?::\d{2})?)
      Rule(Cat(<<Lit("quando devo partire per "), Opt(Lit("andare a ")), Grp(1, LazyPlus(Dot)), Lit(" per arrivare alle "), Grp(2, Cat(<<Rep(1, 2, Cls(Digit)), Opt(Cat(<<Lit(":"), Rep(2, 2, Cls(Digit))>>))>>))>>),
           2, "it", "transport_public"),
      \* mezzi (?:pubblici )?(?:per |verso )?(.+?) per arrivare alle (\d{1,2}(?::\d{2})?)
      Rule(Cat(<<Lit("mezzi "), Opt(Lit("pubblici ")), Opt(Alt(<<Lit("per "), Lit("verso ")>>)), Grp(1, LazyPlus(Dot)), Lit(" per arrivare alle "), Grp(2, Cat(<<Rep(1, 2, Cls(Digit)), Opt(Cat(<<Lit(":"), Rep(2, 2, Cls(Digit))>>))>>))>>),
           2, "it", "transport_public"),
      \* come arrivo a (.+?) alle (\d{1,2}(?::\d{2})?)(?: (?:con i mezzi|in bus|in treno))?
      Rule(Cat(<<Lit("come arrivo a "), Grp(1, LazyPlus(Dot)), Lit(" alle "), Grp(2, Cat(<<Rep(1, 2, Cls(Digit)), Opt(Cat(<<Lit(":"), Rep(2, 2, Cls(Digit))>>))>>)), Opt(Cat(<<Lit(" "), Alt(<<Lit("con i mezzi"), Lit("in bus"), Lit("in treno")>>)>>))>>),
           2, "it", "transport_public"),
      \* mezzi (?:pubblici )?(?:per |verso )?(.+?)(?:\?)?$
      Rule(Cat(<<Lit("mezzi "), Opt(Lit("pubblici ")), Opt(Alt(<<Lit("per "), Lit("verso ")>>)), Grp(1, LazyPlus(Dot)), Opt(Lit("?")), Eol>>),
           1, "it", "transport_public"),
      \* come arrivo a (.+?)(?: (?:con i mezzi|in bus|in treno))?(?:\?)?$
      Rule(Cat(<<Lit("come arrivo a "), Grp(1, LazyPlus(Dot)), Opt(Cat(<<Lit(" "), Alt(<<Lit("con i mezzi"), Lit("in bus"), Lit("in treno")>>)>>)), Opt(Lit("?")), Eol>>),
           1, "it", "transport_public"),
      \* quando devo partire per (.+?)(?:\?)?$
      Rule(Cat(<<Lit("quando devo partire per "), Grp(1, LazyPlus(Dot)), Opt(Lit("?")), Eol>>),
           1, "it", "transport_public")
    >>
  >>

(***************************************************************************)
(* IntentParser (src/intents.py)                                           *)
(***************************************************************************)
\* The values of the IntentType enumeration
IntentType ==
  {"weather", "time", "date",
   "email_check", "email_list", "email_read", "email_send", "email_search",
   "calendar_today", "calendar_yesterday", "calendar_tomorrow", "calendar_specific",
   "calendar_week", "calendar_next", "calendar_create",
   "system_status", "system_shutdown",
   "volume_up", "volume_down", "volume_set",
   "mac_open_app", "mac_close_app", "mac_volume", "mac_sleep", "mac_lock",
   "telegram_send", "telegram_check", "telegram_read",
   "whatsapp_send", "whatsapp_check", "whatsapp_read",
   "joke", "translate", "calculate", "general_chat",
   "news", "finance", "finance_watchlist",
   "recipe_search", "recipe_random", "transport_car", "transport_public", "unknown"}


ITALIAN_KEYWORDS ==
  {"che", "tempo", "fa", "ora", "è", "sono", "oggi", "domani",
   "email", "posta", "manda", "invia", "apri", "chiudi", "dimmi",
   "quanto", "come", "dove", "quando", "perché", "calendario",
   "appuntamento", "sveglia", "promemoria", "battuta", "scherzo",
   "cerca", "trova", "settimana", "spegni", "blocca", "volume",
   "traduci", "calcola", "leggi", "messaggi", "mostrami", "digli",
   "dille", "dimmi", "controlla", "ultimi", "nuovi"}

ENGLISH_KEYWORDS ==
  {"what", "weather", "time", "is", "are", "today", "tomorrow",
   "email", "mail", "send", "open", "close", "tell", "me",
   "how", "where", "when", "why", "calendar", "appointment",
   "alarm", "reminder", "joke", "funny", "search", "find",
   "week", "shutdown", "lock", "volume", "translate", "calculate"}

\* The decisive Italian markers of detect_language
ItalianMarkers == {"è", "sono", "perché", "più", "già"}

\* set(xs) of a list
SetOf(xs) == {xs[k] : k \in DOMAIN xs}

\* r'\b\w+\b'
WordPattern == Rule(Cat(<<WordB, Plus(Cls(Word)), WordB>>), 0, "", "")

\* The comparison of the two scores that makes the verdict Italian
ItalianWins_OnTies(italian_score, english_score) == italian_score >= english_score

ItalianWins(italian_score, english_score) == italian_score > english_score

\* detect_language, lines 554-564: the verdict for the lower-cased text and its words
LanguageOf(text_lower, words) ==
  LET italian_score == Cardinality(words \cap ITALIAN_KEYWORDS)
      english_score == Cardinality(words \cap ENGLISH_KEYWORDS)
  IN IF \E word \in ItalianMarkers : Contains(text_lower, word)
     THEN "it"
     ELSE IF ItalianWins(italian_score, english_score) THEN "it" ELSE "en"

detect_language(text) ==
  LanguageOf(lower(text), SetOf(re_findall(WordPattern, lower(text))))

\* The characters of '.,!?;:'
Punct == {".", ",", "!", "?", ";", ":"}

DEFAULT_LOCATION == "Santhia"

\* extract_parameters, line 571: the groups that took part in the match and are not
\* empty, each one stripped
RECURSIVE FilterGroups(_)
FilterGroups(match_groups) ==
  IF Len(match_groups) = 0 THEN <<>>
  ELSE (IF ~IsNone(Head(match_groups)) /\ Len(Value(Head(match_groups))) > 0
        THEN <<strip(Value(Head(match_groups)))>> ELSE <<>>)
       \o FilterGroups(Tail(match_groups))

extract_parameters(text, intent_type, match_groups) ==
  LET groups == FilterGroups(match_groups)
  IN CASE intent_type = "weather" ->
            KV("location", IF Len(groups) > 0 THEN groups[1] ELSE DEFAULT_LOCATION)
       [] intent_type = "email_send" ->
            IF Len(groups) >= 2 THEN KV("recipient", groups[1]) @@ KV("message", groups[2])
            ELSE IF Len(groups) = 1 THEN KV("recipient", groups[1]) ELSE EmptyDict
       [] intent_type = "email_read" ->
            IF Len(groups) > 0 THEN KV("sender", groups[1]) ELSE EmptyDict
       [] intent_type = "email_search" ->
            IF Len(groups) > 0 THEN KV("keyword", groups[1]) ELSE EmptyDict
       [] intent_type = "calendar_create" ->
            IF Len(groups) > 0 THEN KV("event_description", groups[1]) ELSE EmptyDict
       [] intent_type = "calendar_specific" ->
            IF Len(groups) > 0
            THEN KV("calendar_name", capitalize(rstrip(strip(groups[1]), Punct)))
            ELSE EmptyDict
       [] intent_type \in {"mac_open_app", "mac_close_app"} ->
            IF Len(groups) > 0 THEN KV("app_name", rstrip(groups[1], Punct)) ELSE EmptyDict
       [] intent_type \in {"telegram_read", "whatsapp_read"} ->
            IF Len(groups) > 0 THEN KV("sender", groups[1]) ELSE EmptyDict
       [] intent_type \in {"telegram_check", "whatsapp_check"} -> EmptyDict
       [] intent_type = "volume_set" ->
            IF Len(groups) > 0
            THEN LET level == int(groups[1])
                 IN IF level.raised THEN EmptyDict ELSE KV("level", level.value)
            ELSE EmptyDict
       [] intent_type \in {"volume_up", "volume_down"} ->
            IF Len(groups) > 0 /\ Len(groups[1]) > 0
            THEN LET amount == int(groups[1])
                 IN IF amount.raised THEN KV("amount", 10) ELSE KV("amount", amount.value)
            ELSE KV("amount", 10)
       [] intent_type = "mac_volume" ->
            IF Len(groups) > 0
            THEN LET level == int(groups[1])
                 IN IF ~level.raised THEN KV("level", level.value)
                    ELSE IF Contains(text, "louder") \/ Contains(text, "alza")
                         THEN KV("action", "increase")
                    ELSE IF Contains(text, "quieter") \/ Contains(text, "abbassa")
                         THEN KV("action", "decrease")
                    ELSE IF Contains(text, "mute") \/ Contains(text, "silenzia")
                         THEN KV("action", "mute")
                    ELSE EmptyDict
            ELSE EmptyDict
       [] intent_type \in {"telegram_send", "whatsapp_send"} ->
            IF Len(groups) >= 2 THEN KV("recipient", groups[1]) @@ KV("message", groups[2])
            ELSE EmptyDict
       [] intent_type = "translate" ->
            IF Len(groups) >= 2 THEN KV("text", groups[1]) @@ KV("target_language", groups[2])
            ELSE EmptyDict
       [] intent_type = "calculate" ->
            IF Len(groups) > 0
            THEN KV("expression", join(" ", SelectSeq(groups, LAMBDA x : Len(x) > 0)))
            ELSE EmptyDict
       [] intent_type = "recipe_search" ->
            IF Len(groups) > 0 THEN KV("query", rstrip(groups[1], Punct)) ELSE EmptyDict
       [] intent_type \in {"transport_car", "transport_public"} ->
            IF Len(groups) > 0
            THEN KV("destination", rstrip(groups[1], Punct))
                 @@ (IF Len(groups) >= 2 /\ Len(groups[2]) > 0
                     THEN KV("arrival_time", strip(groups[2])) ELSE EmptyDict)
            ELSE EmptyDict
       [] OTHER -> EmptyDict

sensitive_intents_WithoutCalendarCreate ==
  {"email_send", "system_shutdown", "telegram_send", "whatsapp_send"}

sensitive_intents ==
  {"email_send", "system_shutdown", "telegram_send", "whatsapp_send", "calendar_create"}

_requires_pin(intent_type) == intent_type \in sensitive_intents

\* parse, lines 694-696: text_clean
Normalize(text) == rstrip(lower(strip(text)), Punct)

\* The rules in the order in which the two nested loops of parse (lines 702-703) visit
\* them: category after category, and inside a category rule after rule
RECURSIVE Flatten(_)
Flatten(categories) ==
  IF Len(categories) = 0 THEN <<>> ELSE Head(categories) \o Flatten(Tail(categories))

RuleOrder == Flatten(patterns)

RuleAt(p) == RuleOrder[p]

\* What the loops return at rule p, m being the outcome of re.search for that rule
Found(p, m) == IF m.ok THEN [ok |-> TRUE, p |-> p, g |-> m.g] ELSE NoMatch

\* The loops of parse over RuleOrder[lo..hi], which return at the first rule that
\* matches: the position of that rule and its groups.  The range is searched by halves,
\* the earlier half first.
RECURSIVE FirstMatch_LaterHalfFirst(_, _, _)
FirstMatch_LaterHalfFirst(text_clean, lo, hi) ==
  IF lo > hi THEN NoMatch
  ELSE IF lo = hi THEN Found(lo, re_search(RuleAt(lo), text_clean))
  ELSE LET mid == (lo + hi) \div 2
           right == FirstMatch_LaterHalfFirst(text_clean, mid + 1, hi)
       IN IF right.ok THEN right ELSE FirstMatch_LaterHalfFirst(text_clean, lo, mid)

RECURSIVE FirstMatch(_, _, _)
FirstMatch(text_clean, lo, hi) ==
  IF lo > hi THEN NoMatch
  ELSE IF lo = hi THEN Found(lo, re_search(RuleAt(lo), text_clean))
  ELSE LET mid == (lo + hi) \div 2
           left == FirstMatch(text_clean, lo, mid)
       IN IF left.ok THEN left ELSE FirstMatch(text_clean, mid + 1, hi)

\* The confidences, in hundredths
ConfidenceMatch == 90
ConfidenceFallback == 50

\* parse, lines 706-715: the result for the rule that matched
MatchResult_FallbackConfidence(text, text_clean, language, rule, match_groups) ==
  [intent |-> rule.intent,
   language |-> rule.lang,
   parameters |-> extract_parameters(text_clean, rule.intent, match_groups),
   confidence |-> ConfidenceFallback,
   original_text |-> text,
   requires_pin |-> _requires_pin(rule.intent)]

MatchResult_DetectedLanguage(text, text_clean, language, rule, match_groups) ==
  [intent |-> rule.intent,
   language |-> language,
   parameters |-> extract_parameters(text_clean, rule.intent, match_groups),
   confidence |-> ConfidenceMatch,
   original_text |-> text,
   requires_pin |-> _requires_pin(rule.intent)]

MatchResult(text, text_clean, language, rule, match_groups) ==
  [intent |-> rule.intent,
   language |-> rule.lang,
   parameters |-> extract_parameters(text_clean, rule.intent, match_groups),
   confidence |-> ConfidenceMatch,
   original_text |-> text,
   requires_pin |-> _requires_pin(rule.intent)]

\* parse, lines 718-725: the result when no rule matched
FallbackResult_CleanQuery(text, text_clean, language) ==
  [intent |-> "general_chat",
   language |-> language,
   parameters |-> KV("query", text_clean),
   confidence |-> ConfidenceFallback,
   original_text |-> text,
   requires_pin |-> FALSE]

FallbackResult(text, text_clean, language) ==
  [intent |-> "general_chat",
   language |-> language,
   parameters |-> KV("query", text),
   confidence |-> ConfidenceFallback,
   original_text |-> text,
   requires_pin |-> FALSE]

\* parse, lines 702-725: the result, m being the outcome of the loops
ResultOf(text, text_clean, language, m) ==
  IF m.ok
  THEN MatchResult(text, text_clean, language, RuleAt(m.p), m.g)
  ELSE FallbackResult(text, text_clean, language)

parse(text) ==
  ResultOf(text, Normalize(text), detect_language(Normalize(text)),
           FirstMatch(Normalize(text), 1, Len(RuleOrder)))

(***************************************************************************)
(* The calls a client makes on the intent parser                           *)
(***************************************************************************)
\* The utterances handed to the parser: the test commands of the module (lines 749-790)
\* and further ones, among them texts that several rules match, texts that no rule
\* matches, and texts on which the language detector and the rules disagree.
Corpus ==
  {"What's the weather like?", "Che tempo fa a Torino?", "What time is it?", "Che ora è?",
   "Check my emails", "Send an email to Marco saying I'll be late",
   "Search emails for project alpha", "Controlla la posta", "What's on my calendar today?",
   "What's my schedule this week?", "Create an event tomorrow at 3pm meeting with Bob",
   "Cosa ho in calendario oggi?", "How's the Pi doing?", "Shutdown the Mac", "Open Spotify",
   "Close Chrome", "Set volume to 50", "Lock the screen", "Put Mac to sleep",
   "Send a telegram to Alice saying hello", "WhatsApp Bob that I'm on my way",
   "Tell me a joke", "Translate hello to Italian", "Calculate 25% of 80", "Dimmi una battuta",
   "What should I wear today?", "Can I go for a run?", "", "   ", "hello", "weather in rome",
   "weather for Milan", "weather", "Weather forecast", "che tempo fa oggi", "email", "volume",
   "volume up", "volume up 20", "louder", "mute", "check Work calendar",
   "what's the weather and what's on my calendar today", "che giorno è oggi in calendario",
   "what's the date on my calendar today", "Il meteo di Roma!!",
   "traffic to Vercelli by 9:30 am", "how long to get to Turin by car",
   "recipe for pasta carbonara.", "quanto fa 3 più 4", "3 più 4", "12 * 4", "five plus three",
   "more sonoma wine", "perché no", "già", "what why how che tempo fa è",
   "tell me the time and the weather", "read my emails", "leggi le ultime email",
   "apri Safari sul mac", "open Safari on the mac",
   "mezzi pubblici per Milano per arrivare alle 18:30", "when should i leave for work?",
   "il 20% di 50", "what's 25% of 80", "what is 12 + 30", "increase the volume by 5",
   "alza il volume", "what time is it and what's the weather and what's on my calendar today",
   "what's the date and the weather in rome", "PIÙ TARDI", "Email", "calendar email",
   "manda una email a Luca dicendo ciao", "spegni il computer", "spegni il raspberry",
   "shutdown", "manda un telegram a Anna dicendo ciao", "scrivi a Bob su whatsapp che arrivo",
   "crea un evento domani alle 15", "schedule a meeting tomorrow",
   "add event dentist on friday", "che giorno è oggi", "what day is it today on my calendar",
   "weather today and my calendar today", "what's the weather today", "Che Tempo Fa A Torino?",
   "  Che tempo fa a Torino?  ", "che tempo fa a torino", "send an email to marco",
   "che ore sono", "news", "ultime notizie", "stock price of apple", "I sono here",
   "what is the meaning of life", "Perché il cielo è blu?", "tell me why", "come stai",
   "dimmi come stai oggi", "open the mail and tell me the time", "SHUTDOWN THE MAC!",
   "whatsapp", "telegram", "volume 30", "turn it down", "abbassa il volume di 5",
   "random recipe", "what can i cook", "traduci ciao in inglese", "quanto costa il bitcoin",
   "directions to Rome", "blocca lo schermo", "metti il mac in stop", "good morning alfred",
   "grazie mille", "what's the date and what's on my calendar today",
   "che giorno è oggi e cosa ho in calendario oggi", "what is the weather like più tardi"}

InitIntentParser ==
  /\ now = 0
  /\ context = ContextManager(300, 10, 0)
  /\ call = NoCall
  /\ utterance \in Corpus
  /\ result = None
  /\ detected = None

\* A new utterance arrives
Hear ==
  \E text \in Corpus :
    /\ text # utterance
    /\ utterance' = text
    /\ result' = None
    /\ detected' = None
    /\ UNCHANGED <<context, now, call>>

\* parser.parse(utterance)
Parse ==
  /\ result = None
  /\ result' = Some(parse(utterance))
  /\ UNCHANGED <<context, now, call, utterance, detected>>

\* parser.detect_language(utterance)
DetectLanguage ==
  /\ detected = None
  /\ detected' = Some(detect_language(utterance))
  /\ UNCHANGED <<context, now, call, utterance, result>>

NextIntentParser == Hear \/ Parse \/ DetectLanguage

SpecParser == InitIntentParser /\ [][NextIntentParser]_vars

(***************************************************************************)
(* Claims about the intent parser, checked under SpecParser                *)
(***************************************************************************)
\* Rule p of the rule order matches the normalized text
RuleMatches(p, text_clean) == re_search(RuleAt(p), text_clean).ok

\* Some rule matches the normalized text
SomeRuleMatches(text_clean) == \E p \in 1..Len(RuleOrder) : RuleMatches(p, text_clean)

\* The earliest rule of the rule order that matches the normalized text
EarliestMatch(text_clean) ==
  CHOOSE p \in 1..Len(RuleOrder) :
    RuleMatches(p, text_clean) /\ \A o \in 1..(p - 1) : ~RuleMatches(o, text_clean)

\* Some rule with this intent matches the normalized text
IntentMatches(intent, text_clean) ==
  \E p \in 1..Len(RuleOrder) : RuleAt(p).intent = intent /\ RuleMatches(p, text_clean)

\* The keyword occurs in the text as a whole word
OccursAsWord(s, keyword) ==
  \E k \in 0..(Len(s) - Len(keyword)) :
    /\ SubSeq(s, k + 1, k + Len(keyword)) = keyword
    /\ k = 0 \/ CharAt(s, k) \notin Word
    /\ k + Len(keyword) = Len(s) \/ CharAt(s, k + Len(keyword) + 1) \notin Word

\* The number of distinct keywords of the set that occur in the text
KeywordScore(s, keywords) == Cardinality({keyword \in keywords : OccursAsWord(s, keyword)})

\* C4: parse returns exactly one result, a dict of the six result fields and never an
\* exception; its confidence is 0.9 or 0.5, 0.9 exactly when some rule matched the
\* normalized text and 0.5 exactly when the result is the general_chat fallback.
C4_OneResultTwoConfidences ==
  ~IsNone(result) =>
    LET r == Value(result)
        matched == SomeRuleMatches(Normalize(utterance))
    IN /\ Len(result) = 1
       /\ DOMAIN r = {"intent", "language", "parameters", "confidence", "original_text",
                      "requires_pin"}
       /\ r.confidence \in {90, 50}
       /\ r.confidence = 90 <=> matched
       /\ r.confidence = 50 <=> r.intent = "general_chat"
       /\ r.intent = "general_chat" <=> ~matched

\* parse returned a matched result whose parameter went through int()
C4_Witness ==
  /\ utterance = "Set volume to 50"
  /\ ~IsNone(result)
  /\ Value(result).confidence = 90
  /\ Value(result).parameters = KV("level", 50)

\* C5: requires_pin is true if and only if the intent is one of email_send,
\* system_shutdown, telegram_send, whatsapp_send and calendar_create, for every intent
\* kind of the enumeration and in every result of parse, whatever the language and the
\* parameters.
C5_RequiresPinIffSensitive ==
  /\ \A intent_type \in IntentType :
       _requires_pin(intent_type) <=>
         intent_type \in {"email_send", "system_shutdown", "telegram_send",
                          "whatsapp_send", "calendar_create"}
  /\ ~IsNone(result) =>
       (Value(result).requires_pin <=>
          Value(result).intent \in {"email_send", "system_shutdown", "telegram_send",
                                    "whatsapp_send", "calendar_create"})

\* parse returned an Italian calendar_create result with a parameter, flagged for the PIN
C5_Witness ==
  /\ ~IsNone(result)
  /\ Value(result).intent = "calendar_create"
  /\ Value(result).language = "it"
  /\ "event_description" \in DOMAIN Value(result).parameters
  /\ Value(result).requires_pin

\* The rules of the rule order that match the normalized text
MatchingRules(text_clean) == {p \in 1..Len(RuleOrder) : RuleMatches(p, text_clean)}

C7_LanguageOfTheRule ==
  ~IsNone(result) =>
    LET r == Value(result)
        text_clean == Normalize(utterance)
    IN IF SomeRuleMatches(text_clean)
       THEN r.language = RuleAt(EarliestMatch(text_clean)).lang
       ELSE r.language = detect_language(text_clean)

\* parse returned the language of the matching rule where detect_language says the other
C7_Witness ==
  /\ ~IsNone(result)
  /\ SomeRuleMatches(Normalize(utterance))
  /\ detect_language(Normalize(utterance)) = "en"
  /\ detect_language(utterance) = "en"
  /\ Value(result).language = "it"

\* C8: when no rule matches the normalized text, parse returns the fallback: intent
\* general_chat, the language detect_language returns, confidence 0.5, requires_pin
\* false, and as parameters exactly {query: the original, unmodified text}.
C8_Fallback ==
  (~IsNone(result) /\ ~SomeRuleMatches(Normalize(utterance))) =>
    LET r == Value(result)
    IN /\ r.intent = "general_chat"
       /\ r.language = detect_language(utterance)
       /\ r.language = detect_language(Normalize(utterance))
       /\ r.confidence = 50
       /\ r.requires_pin = FALSE
       /\ r.parameters = KV("query", utterance)

\* parse fell back on a text that normalization changes
C8_Witness ==
  /\ ~IsNone(result)
  /\ ~SomeRuleMatches(Normalize(utterance))
  /\ Normalize(utterance) # utterance
  /\ Len(Normalize(utterance)) > 0
  /\ Value(result).intent = "general_chat"

\* C9: parse of "Che tempo fa a Torino?" yields intent weather, language it and the
\* parameter location "Torino", as the user wrote it.
C9_TorinoAsWritten ==
  (utterance = "Che tempo fa a Torino?" /\ ~IsNone(result)) =>
    /\ Value(result).intent = "weather"
    /\ Value(result).language = "it"
    /\ Value(result).parameters = KV("location", "Torino")

\* C10: detect_language returns Italian whenever the lower-cased text contains one of
\* the markers è, sono, perché, più, già; otherwise Italian if and only if more distinct
\* Italian keywords than distinct English keywords occur in it as words; English in every
\* other case, ties and the empty text included.
C10_MarkersThenStrictMajority ==
  ~IsNone(detected) =>
    LET s == lower(utterance)
        marked == \E marker \in {"è", "sono", "perché", "più", "già"} : Contains(s, marker)
        italian == KeywordScore(s, ITALIAN_KEYWORDS)
        english == KeywordScore(s, ENGLISH_KEYWORDS)
    IN /\ Value(detected) \in {"it", "en"}
       /\ marked => Value(detected) = "it"
       /\ ~marked => (Value(detected) = "it" <=> italian > english)
       /\ (~marked /\ italian = english) => Value(detected) = "en"
       /\ utterance = "" => Value(detected) = "en"

\* detect_language answered for a text with a marker and more English than Italian keywords
C10_Witness ==
  /\ ~IsNone(detected)
  /\ \E marker \in {"è", "sono", "perché", "più", "già"} : Contains(lower(utterance), marker)
  /\ KeywordScore(lower(utterance), ENGLISH_KEYWORDS)
       > KeywordScore(lower(utterance), ITALIAN_KEYWORDS)
  /\ Value(detected) = "it"

(***************************************************************************)
(* SimpleConcatenationParser (src/functions/simple_concatenation_parser.py)*)
(***************************************************************************)
\* r'\s+word\s+'
ConnectivePattern(word) ==
  Rule(Cat(<<Plus(Cls(Space)), Lit(word), Plus(Cls(Space))>>), 0, "", "")

\* self.split_patterns
split_patterns ==
  [it |-> <<ConnectivePattern("e"), ConnectivePattern("anche"), ConnectivePattern("poi"),
            ConnectivePattern("inoltre")>>,
   en |-> <<ConnectivePattern("and"), ConnectivePattern("also"), ConnectivePattern("then"),
            ConnectivePattern("plus")>>]

\* self.split_patterns.get(language, self.split_patterns['en'])
PatternsFor_AlwaysEnglish(language) == split_patterns["en"]

PatternsFor(language) ==
  IF language \in DOMAIN split_patterns THEN split_patterns[language] ELSE split_patterns["en"]

\* has_concatenation, lines 45-50: some pattern of the list is found in the lower-cased query
AnyPatternFound(rules, query_lower) ==
  \E k \in 1..Len(rules) : re_search(rules[k], query_lower).ok

has_concatenation(query, language) == AnyPatternFound(PatternsFor(language), lower(query))

\* re.split(pattern, s, flags=re.IGNORECASE): the texts between the successive matches.
\* SplitFrom splits what follows position i, SplitAfter continues after the match m.
RECURSIVE SplitFrom(_, _, _)
RECURSIVE SplitAfter(_, _, _, _)
SplitAfter(rule, s, i, m) ==
  IF ~m.ok THEN <<SubSeq(s, i + 1, Len(s))>>
  ELSE <<SubSeq(s, i + 1, m.from)>> \o SplitFrom(rule, s, m.to)

SplitFrom(rule, s, i) == SplitAfter(rule, s, i, SearchFrom(rule, s, i))

re_split(rule, s) == SplitFrom(rule, s, 0)

\* split_query, line 77: [part.strip() for part in parts if part.strip()]
RECURSIVE cleaned_parts(_)
cleaned_parts(parts) ==
  IF Len(parts) = 0 THEN <<>>
  ELSE (IF Len(strip(Head(parts))) > 0 THEN <<strip(Head(parts))>> ELSE <<>>)
       \o cleaned_parts(Tail(parts))

\* split_query, lines 73-81: the loop over the patterns; parts is what the first
\* pattern of the list splits the query into
RECURSIVE SplitWith(_, _)
RECURSIVE SplitOrNext(_, _, _)
SplitOrNext(rules, query, parts) ==
  IF Len(parts) > 1 THEN cleaned_parts(parts) ELSE SplitWith(Tail(rules), query)

SplitWith(rules, query) ==
  IF Len(rules) = 0 THEN <<query>>
  ELSE SplitOrNext(rules, query, re_split(Head(rules), query))

split_query(query, language) ==
  IF ~has_concatenation(query, language) THEN <<query>>
  ELSE SplitWith(PatternsFor(language), query)

(***************************************************************************)
(* ComplexQueryParser.is_complex_query                                     *)
(* (src/functions/complex_query_parser.py)                                 *)
(***************************************************************************)
\* The keywords of the two tests of is_complex_query (lines 41-42 and 48-49)
MultiPartKeywords ==
  {"and", "also", "then", "after that", "plus", "e", "anche", "poi", "dopo", "inoltre"}

DecisionKeywords ==
  {"should i", "can i", "what should", "when should",
   "devo", "posso", "cosa dovrei", "quando dovrei"}

\* any(keyword in query.lower() for keyword in keywords)
AnyKeywordIn(keywords, query_lower) == \E keyword \in keywords : Contains(query_lower, keyword)

\* The confidence is counted in hundredths: 0.7 is 70
is_complex_query(intent, query, confidence) ==
  /\ intent = "general_chat"
  /\ confidence < 70
  /\ \/ AnyKeywordIn(MultiPartKeywords, lower(query))
     \/ AnyKeywordIn(DecisionKeywords, lower(query))

(***************************************************************************)
(* The calls a client makes on the concatenation splitter and on the       *)
(* complex-query gate                                                      *)
(***************************************************************************)
\* The queries: the test queries of the module (lines 166-172) and further ones with a
\* connective inside a longer word, in upper case, next to a tab, or at the start or the
\* end of the text.
Queries ==
  {"Che tempo fa e che ore sono?", "What's the weather and what's the news?",
   "What's the time and the date?", "Che tempo fa?", "Hello", "",
   "and", "and then", "sand castle", "bread AND butter", "x and ", " and x", " and ",
   "pane e vino", "e poi", "What's the time\tand the date?", "a also b and c",
   "this plus that then those", "prima anche dopo inoltre basta", "salt andpepper",
   "What should I wear today?", "Can I go for a run?", "posso uscire", "grazie", "thank you"}

\* The language codes a caller passes: the two known ones and an unknown one
LanguageCodes == {"en", "it", "fr"}

InitSplitter ==
  /\ now = 0
  /\ context = ContextManager(300, 10, 0)
  /\ call = NoCall
  /\ utterance \in Queries
  /\ result = None
  /\ detected = None

\* simple_concat_parser.has_concatenation(utterance, language)
HasConcatenation ==
  \E language \in LanguageCodes :
    /\ call' = [op |-> "has_concatenation", language |-> language,
                returned |-> has_concatenation(utterance, language)]
    /\ UNCHANGED <<context, now, utterance, result, detected>>

\* simple_concat_parser.split_query(utterance, language)
SplitQuery ==
  \E language \in LanguageCodes :
    /\ call' = [op |-> "split_query", language |-> language,
                returned |-> split_query(utterance, language)]
    /\ UNCHANGED <<context, now, utterance, result, detected>>

\* The classifications handed to the gate: the two confidences the parser produces and
\* the threshold itself, with the fallback intent and a matched one
GateInputs == {"general_chat", "weather"} \X {50, 70, 90}

\* complex_parser.is_complex_query(intent, utterance, confidence)
IsComplexQuery ==
  \E input \in GateInputs :
    /\ call' = [op |-> "is_complex_query", intent |-> input[1], confidence |-> input[2],
                returned |-> is_complex_query(input[1], utterance, input[2])]
    /\ UNCHANGED <<context, now, utterance, result, detected>>

NextSplitter == HasConcatenation \/ SplitQuery \/ IsComplexQuery

SpecSplitter == InitSplitter /\ [][NextSplitter]_vars

(***************************************************************************)
(* Claims about the concatenation splitter and the complex-query gate,     *)
(* checked under SpecSplitter                                              *)
(***************************************************************************)
\* The connectives of the two lists, as words
ConnectiveWords ==
  [en |-> {"and", "also", "then", "plus"}, it |-> {"e", "anche", "poi", "inoltre"}]

\* The word stands in the text, in any case, with a whitespace character before and after
BetweenSpaces(s, word) ==
  \E k \in 1..(Len(s) - Len(word) - 1) :
    /\ CharAt(s, k) \in Space
    /\ lower(SubSeq(s, k + 1, k + Len(word))) = word
    /\ CharAt(s, k + Len(word) + 1) \in Space

\* Some connective of the list the language selects (the English one for a language other
\* than en and it) stands in the text between whitespace
ConnectiveBetweenSpaces(s, language) ==
  \E word \in ConnectiveWords[IF language \in {"en", "it"} THEN language ELSE "en"] :
    BetweenSpaces(s, word)

\* C11: has_concatenation(text, language) is true if and only if a connective of the
\* language's list (en: and, also, then, plus; it: e, anche, poi, inoltre) occurs in the
\* text, in any case, with whitespace on both sides; a connective inside a longer word or
\* at the very start or end of the text does not count, and a language other than en and
\* it uses the English list.
C11_ConnectiveBetweenSpaces ==
  call.op = "has_concatenation" =>
    (call.returned <=> ConnectiveBetweenSpaces(utterance, call.language))

\* has_concatenation found an upper-case connective for a language that has no list
C11_Witness ==
  /\ call.op = "has_concatenation"
  /\ call.language = "fr"
  /\ utterance = "bread AND butter"
  /\ call.returned

\* A segment is trimmed when it neither begins nor ends with whitespace
Trimmed(s) == strip(s) = s

\* C12 (as stated): split_query returns either the original text as a
\* single-element list, or at least two segments that are all non-empty and
\* trimmed; it never returns a single segment that differs from the original
\* text (nor an empty list), and the English example "What's the weather and
\* what's the news?" yields exactly two segments.  Violated: the code tests
\* len(parts) > 1 on the raw split and drops the empty parts afterwards, so
\* "x and " yields the single segment "x".
C12_OriginalOrTwoSegments ==
  call.op = "split_query" =>
    /\ \/ call.returned = <<utterance>>
       \/ /\ Len(call.returned) >= 2
          /\ \A k \in 1..Len(call.returned) :
               call.returned[k] # "" /\ Trimmed(call.returned[k])
    /\ utterance = "What's the weather and what's the news?"
         /\ call.language = "en" => Len(call.returned) = 2

\* The connective occurs in s as a whole word: between whitespace or the ends
\* of the text
WholeWord(s, word) == BetweenSpaces(" " \o s \o " ", word)

\* The whole-word connective lists of the splitter, both languages together
SplitterConnectives == ConnectiveWords["en"] \cup ConnectiveWords["it"]

\* C13 (as stated): is_complex_query is true exactly when the intent is
\* general_chat, the confidence is below 0.70 and the query contains a
\* connective of the splitter's lists as a whole word or a decision marker;
\* it is false for every utterance that contains neither.  Violated: the code
\* tests its keywords, among them "e", as substrings of the lower-cased
\* query, so "grazie" and "Che tempo fa?" pass the gate.
C13_GateNeedsConnectiveOrMarker ==
  call.op = "is_complex_query" =>
    (call.returned <=>
       /\ call.intent = "general_chat"
       /\ call.confidence < 70
       /\ \/ \E word \in SplitterConnectives : WholeWord(utterance, word)
          \/ \E marker \in DecisionKeywords : Contains(lower(utterance), marker))


(***************************************************************************)
(* ContextManager: the last turn, pronouns and follow-ups                  *)
(* (src/functions/context_manager.py)                                      *)
(***************************************************************************)
\* the truth value of an Optional[str]: None and the empty string are false
Truthy(o) == ~IsNone(o) /\ Value(o) # ""

\* s.startswith(prefix), s.endswith(suffix)
startswith(s, prefix) == Len(s) >= Len(prefix) /\ SubSeq(s, 1, Len(prefix)) = prefix
endswith(s, suffix) ==
  Len(s) >= Len(suffix) /\ SubSeq(s, Len(s) - Len(suffix) + 1, Len(s)) = suffix

\* s.replace(old, new): every occurrence of old, found from left to right without
\* overlap, is replaced; `found` holds the positions of old at or after position i
RECURSIVE ReplaceFrom(_, _, _, _)
ReplaceAt(s, old, new, i, found) ==
  IF found = {} THEN SubSeq(s, i, Len(s))
  ELSE SubSeq(s, i, Min(found) - 1) \o new \o ReplaceFrom(s, old, new, Min(found) + Len(old))

ReplaceFrom(s, old, new, i) ==
  ReplaceAt(s, old, new, i,
            {k \in i..(Len(s) - Len(old) + 1) : SubSeq(s, k, k + Len(old) - 1) = old})

replace(s, old, new) == ReplaceFrom(s, old, new, 1)

get_last_turn_First(c) == IF Len(c.history) > 0 THEN Some(c.history[1]) ELSE None

get_last_turn(c) == IF Len(c.history) > 0 THEN Some(c.history[Len(c.history)]) ELSE None

\* resolve_pronoun, lines 195-198: "it" becomes the last entity
ResolveIt(c, text, text_lower) ==
  IF /\ Truthy(c.last_entity)
     /\ \/ Contains(text_lower, " it ")
        \/ startswith(text_lower, "it ")
        \/ endswith(text_lower, " it")
  THEN replace(replace(text, " it ", " " \o Value(c.last_entity) \o " "),
               "It ", capitalize(Value(c.last_entity)) \o " ")
  ELSE text

\* resolve_pronoun, lines 195 and 200-202: "that" becomes the last entity
ResolveThat(c, text, text_lower) ==
  IF /\ Truthy(c.last_entity)
     /\ \/ Contains(text_lower, " that ")
        \/ startswith(text_lower, "that ")
  THEN replace(replace(text, " that ", " " \o Value(c.last_entity) \o " "),
               "That ", capitalize(Value(c.last_entity)) \o " ")
  ELSE text

\* resolve_pronoun, lines 204-206: "there" becomes the last destination
ResolveThere_LastEntity(c, text, text_lower) ==
  IF Truthy(c.last_entity) /\ Contains(text_lower, " there")
  THEN replace(text, " there", " " \o Value(c.last_entity))
  ELSE text

ResolveThere(c, text, text_lower) ==
  IF Truthy(c.current_destination) /\ Contains(text_lower, " there")
  THEN replace(text, " there", " " \o Value(c.current_destination))
  ELSE text

resolve_pronoun(c, text, t) ==
  IF ~is_active(c, t) THEN text
  ELSE ResolveThere(c, ResolveThat(c, ResolveIt(c, text, lower(text)), lower(text)), lower(text))

\* handle_follow_up, lines 227-236: "tomorrow" and "what about" copy what the context holds
AboutTomorrow(c, command_lower) ==
  IF /\ Contains(command_lower, "tomorrow") \/ Contains(command_lower, "what about")
     /\ ~IsNone(get_last_turn(c))
  THEN Update(IF Truthy(c.current_location)
              THEN KV("location", Value(c.current_location)) ELSE EmptyDict,
              IF Truthy(c.current_destination)
              THEN KV("destination", Value(c.current_destination)) ELSE EmptyDict)
  ELSE EmptyDict

\* handle_follow_up, lines 238-244: "how long", "will it take" and "traffic" without "to"
NeedsDestination(c, command_lower, additional_params) ==
  IF /\ Truthy(c.current_destination)
     /\ \/ Contains(command_lower, "how long")
        \/ Contains(command_lower, "will it take")
        \/ Contains(command_lower, "traffic") /\ ~Contains(command_lower, "to")
  THEN Update(additional_params, KV("destination", Value(c.current_destination)))
  ELSE additional_params

\* the pair (resolved_command, additional_params)
handle_follow_up(c, command, t) ==
  IF ~is_active(c, t) \/ Len(c.history) = 0 THEN <<command, EmptyDict>>
  ELSE <<resolve_pronoun(c, command, t),
         NeedsDestination(c, lower(command), AboutTomorrow(c, lower(command)))>>

(***************************************************************************)
(* The calls a client makes to read the context                            *)
(***************************************************************************)
\* The turns recorded before a follow-up: those of the module's own test (lines 296-318)
\* and a recipe search whose query becomes the last entity without being a destination
FollowUpTurns ==
  {<<"What's the weather in Milan?", "weather", "en", KV("location", "Milan"),
     "The weather in Milan is 15 degrees, partly cloudy.", TRUE>>,
   <<"Traffic to Vercelli", "transport_car", "en", KV("destination", "Vercelli"),
     "It will take 22 minutes to get to Vercelli.", TRUE>>,
   <<"Recipes from Vercelli", "recipe_search", "en", KV("query", "Vercelli"),
     "Here is a recipe.", TRUE>>,
   <<"Recipe for carbonara", "recipe_search", "en", KV("query", "carbonara"),
     "Here is a recipe.", TRUE>>}

\* The commands of the module's own test (lines 322-333) and further ones with the
\* pronouns at the start, inside and at the end of the text, or with "to" inside a word
FollowUpTexts ==
  {"How long to get there?", "What's the traffic to it?", "What about tomorrow?",
   "What's the traffic like?", "It is far from that place", "that is how far from here",
   "how far is it", "Will it take long", "What's the traffic like today?"}

\* a history of one turn or of two: both evict, and the second keeps an older turn
InitContext ==
  /\ now = 0
  /\ \E max_history \in 1..2 : context = ContextManager(MaxTimeout, max_history, 0)
  /\ call = NoCall
  /\ InitParser

RecordTurn ==
  \E input \in FollowUpTurns :
    /\ context' = add_turn(context, input[1], input[2], input[3], input[4], input[5], input[6], now)
    /\ call' = [op |-> "add_turn", input |-> input, expired |-> ~is_active(context, now),
                turns_before |-> context.history]
    /\ UNCHANGED <<now, utterance, result, detected>>

GetLastTurn ==
  /\ call' = [op |-> "get_last_turn", returned |-> get_last_turn(context)]
  /\ UNCHANGED <<context, now, utterance, result, detected>>

ResolvePronoun ==
  \E text \in FollowUpTexts :
    /\ call' = [op |-> "resolve_pronoun", text |-> text,
                returned |-> resolve_pronoun(context, text, now)]
    /\ UNCHANGED <<context, now, utterance, result, detected>>

HandleFollowUp ==
  \E command \in FollowUpTexts :
    /\ call' = [op |-> "handle_follow_up", command |-> command,
                returned |-> handle_follow_up(context, command, now)]
    /\ UNCHANGED <<context, now, utterance, result, detected>>

NextContext == RecordTurn \/ Reset \/ Tick \/ GetLastTurn \/ ResolvePronoun \/ HandleFollowUp

SpecContext == InitContext /\ [][NextContext]_vars

(***************************************************************************)
(* Every call of the context manager, mutating or reading, on one context  *)
(***************************************************************************)
\* lines 251-262; the clock is read in whole seconds, so int() changes nothing
get_context_summary(c, t) ==
  [active |-> is_active(c, t),
   turns |-> Len(c.history),
   current_topic |-> c.current_topic,
   current_location |-> c.current_location,
   current_destination |-> c.current_destination,
   last_entity |-> c.last_entity,
   session_duration |-> t - c.session_start,
   time_since_last |-> t - c.last_activity]

\* lines 270-272: preferences.get(key, default); the default is None or a value
get_preference(c, key, default) ==
  IF key \in DOMAIN c.preferences THEN Some(c.preferences[key]) ELSE default

\* a history of one turn: the reading calls look at no older turn
InitReads ==
  /\ now = 0
  /\ context = ContextManager(MaxTimeout, 1, 0)
  /\ call = NoCall
  /\ InitParser

IsActive ==
  /\ call' = [op |-> "is_active", returned |-> is_active(context, now)]
  /\ UNCHANGED <<context, now, utterance, result, detected>>

\* a reading call that would expire the context eagerly
GetContextSummary_Expires ==
  /\ call' = [op |-> "get_context_summary", returned |-> get_context_summary(context, now)]
  /\ context' = ResetIfExpired(context, now)
  /\ UNCHANGED <<now, utterance, result, detected>>

GetContextSummary ==
  /\ call' = [op |-> "get_context_summary", returned |-> get_context_summary(context, now)]
  /\ UNCHANGED <<context, now, utterance, result, detected>>

GetPreference ==
  \E key \in PreferenceKeys \cup {"language"}, default \in {None, Some("metric")} :
    /\ call' = [op |-> "get_preference", key |-> key, default |-> default,
                returned |-> get_preference(context, key, default)]
    /\ UNCHANGED <<context, now, utterance, result, detected>>

NextReads ==
  \/ RecordTurn \/ Reset \/ SetPreference \/ Tick
  \/ IsActive \/ GetLastTurn \/ ResolvePronoun \/ HandleFollowUp
  \/ GetContextSummary \/ GetPreference

SpecReads == InitReads /\ [][NextReads]_vars

(***************************************************************************)
(* Claims about the reading calls of the context manager, checked under    *)
(* SpecContext                                                             *)
(***************************************************************************)
\* the turn that add_turn builds from the recorded input at time t
TurnOf(input, t) ==
  ConversationTurn(t, input[1], input[2], input[3], input[4], input[5], input[6])

\* the last n elements of a sequence
LastN(seq, n) == SubSeq(seq, Len(seq) - n + 1, Len(seq))

\* C15: the history is the most recent min(k, max_history) turns added since the last
\* reset, in add_turn order: every add_turn appends its turn to the turns kept so far
\* (none after an explicit reset or the reset of an expired context) and evicts the
\* oldest when max_history is exceeded, no other call but reset touches the history,
\* and get_last_turn returns the turn of the latest add_turn.
C15_MostRecentTurns ==
  [][/\ call'.op = "add_turn" =>
          LET kept == IF call'.expired THEN <<>> ELSE context.history
              added == Append(kept, TurnOf(call'.input, now))
          IN context'.history =
               LastN(added, IF Len(added) < context.max_history
                            THEN Len(added) ELSE context.max_history)
     /\ call'.op = "reset" => context'.history = <<>>
     /\ call'.op \notin {"add_turn", "reset"} => context'.history = context.history
     /\ call.op = "add_turn" /\ call'.op = "get_last_turn" =>
          call'.returned = Some(TurnOf(call.input, now))
     /\ call'.op = "get_last_turn" /\ context.history = <<>> => call'.returned = None
    ]_vars

\* add_turn on an active context whose history was full evicted the oldest turn, and
\* the turn just added is the one get_last_turn returns
C15_Witness ==
  /\ call.op = "add_turn"
  /\ ~call.expired
  /\ Len(call.turns_before) = context.max_history
  /\ context.max_history = 2
  /\ context.history = <<call.turns_before[2], TurnOf(call.input, now)>>
  /\ call.turns_before[1] # call.turns_before[2]
  /\ get_last_turn(context) = Some(TurnOf(call.input, now))

\* C16: in an active context whose current_destination is "Vercelli",
\* resolve_pronoun("How long to get there?") returns "How long to get Vercelli?", the
\* text with " there" replaced by " Vercelli"; when neither last_entity nor
\* current_destination is set, resolve_pronoun returns its input unchanged.
C16_ThereIsTheDestination ==
  call.op = "resolve_pronoun" =>
    /\ /\ is_active(context, now)
       /\ context.current_destination = Some("Vercelli")
       /\ call.text = "How long to get there?"
       => call.returned = "How long to get Vercelli?"
    /\ IsNone(context.last_entity) /\ IsNone(context.current_destination)
       => call.returned = call.text

\* the pronoun was resolved in an active context whose destination is Vercelli while
\* its last entity is something else
C16_Witness ==
  /\ call.op = "resolve_pronoun"
  /\ is_active(context, now)
  /\ context.current_destination = Some("Vercelli")
  /\ context.last_entity = Some("carbonara")
  /\ call.text = "How long to get there?"
  /\ call.returned = "How long to get Vercelli?"

\* C16 (as stated): in an active context whose last_entity is "Vercelli",
\* resolve_pronoun("How long to get there?") returns the text with " there" replaced
\* by " Vercelli".  Violated when the last entity is the query of a recipe search and
\* no destination is set: " there" is replaced by the current destination only.
C16_ThereIsTheLastEntity ==
  call.op = "resolve_pronoun" =>
    /\ /\ is_active(context, now)
       /\ context.last_entity = Some("Vercelli")
       /\ call.text = "How long to get there?"
       => call.returned = "How long to get Vercelli?"
    /\ IsNone(context.last_entity) /\ IsNone(context.current_destination)
       => call.returned = call.text

\* C17: an expired context contributes nothing to an utterance: while
\* now - last_activity >= timeout, handle_follow_up returns (command, {}) with the
\* command unchanged and resolve_pronoun returns its text unchanged, whatever location,
\* destination or entity is still stored; handle_follow_up also returns (command, {})
\* whenever the history is empty.
C17_ExpiredContributesNothing ==
  /\ call.op = "resolve_pronoun" /\ now - context.last_activity >= context.timeout
       => call.returned = call.text
  /\ call.op = "handle_follow_up"
     /\ (now - context.last_activity >= context.timeout \/ context.history = <<>>)
       => call.returned = <<call.command, EmptyDict>>

\* handle_follow_up was called on an expired context that still stores the destination
\* Vercelli, with a command that an active context would have resolved and completed
C17_Witness ==
  /\ call.op = "handle_follow_up"
  /\ now - context.last_activity >= context.timeout
  /\ context.history # <<>>
  /\ context.current_destination = Some("Vercelli")
  /\ call.command = "How long to get there?"
  /\ call.returned = <<"How long to get there?", EmptyDict>>

(***************************************************************************)
(* The decomposition collaborator (src/functions/complex_query_parser.py)  *)
(* and its use by the main loop.  A JSON value is a tagged record:         *)
(***************************************************************************)
\* tag "list" with its items, "dict" with its keys, "str" with its text as the only
\* element; "null" for None and "missing" for a key that the object does not hold
Json(tag, value) == [tag |-> tag, value |-> value]

\* dict.get(key, default) of a key that may be missing
GetOr(value, default) == IF value.tag = "missing" THEN default ELSE value

\* len(value): None has no length
JLen(value) ==
  CASE value.tag \in {"list", "dict"} -> Returned(Len(value.value))
    [] value.tag = "str" -> Returned(Len(value.value[1]))
    [] OTHER -> Raise("TypeError")

\* the truth value of a JSON value: None and the empty containers are false
JTruthy(value) ==
  CASE value.tag \in {"list", "dict"} -> Len(value.value) > 0
    [] value.tag = "str" -> Len(value.value[1]) > 0
    [] OTHER -> FALSE

\* value[0]: the first item of a list, the first character of a str; the keys of a
\* JSON object are strings, so the key 0 is never among them
JFirst_LastItem(value) ==
  CASE value.tag = "list" -> Returned(value.value[Len(value.value)])
    [] value.tag = "str" -> Returned(CharAt(value.value[1], 1))
    [] value.tag = "dict" -> Raise("KeyError")
    [] OTHER -> Raise("TypeError")

JFirst(value) ==
  CASE value.tag = "list" -> Returned(value.value[1])
    [] value.tag = "str" -> Returned(CharAt(value.value[1], 1))
    [] value.tag = "dict" -> Raise("KeyError")
    [] OTHER -> Raise("TypeError")

\* What the collaborator does with one request: requests.post raises (timeout,
\* connection error), answers with another status than 200, answers with a text that
\* holds no JSON object or a broken one, or answers with a JSON object
Reply(kind, type, intents) == [kind |-> kind, type |-> type, intents |-> intents]

Replies ==
  {Reply(kind, "", Json("missing", <<>>)) :
     kind \in {"timeout", "connection_error", "status_500", "no_json", "bad_json"}}
  \cup
  {Reply("json", "simple", Json("list", <<"general_chat">>)),
   Reply("json", "complex", Json("list", <<"weather", "calendar_today">>)),
   Reply("json", "complex", Json("list", <<"clothing_advice", "weather">>)),
   Reply("json", "complex", Json("list", <<>>)),
   Reply("json", "complex", Json("missing", <<>>)),
   Reply("json", "complex", Json("null", <<>>)),
   Reply("json", "complex", Json("str", <<"weather">>)),
   Reply("json", "complex", Json("dict", <<"primary", "secondary">>))}

\* parse_complex_query: None unless the reply holds a JSON object; the debug line 98
\* takes the length of its intents, and what that raises is caught on line 105
parse_complex_query(reply) ==
  IF reply.kind # "json" THEN None
  ELSE IF JLen(GetOr(reply.intents, Json("list", <<>>))).raised THEN None
  ELSE Some([type |-> reply.type, intents |-> reply.intents])

(***************************************************************************)
(* The main loop (src/functions/alfred.py, lines 335-1033): one command    *)
(* from the transcription to the recorded turn                             *)
(***************************************************************************)

\* The commands the transcription hands to the loop
Commands ==
  {"", "What's the weather in Milan?", "Traffic to Vercelli",
   "how long to get to Turin by car", "How long to get there?",
   "What's the weather and what's the news?", "meteo and news",
   "Check my emails and tell me the news", "What should I wear today?",
   "What's the traffic like?", "Should I cook pasta e fagioli for the chef?"}

\* parse_intent of src/intents.py: the module's parser, called on the text.  The
\* parser keeps no state between calls, so what it returns for the commands, for
\* their first segments and for their resolved forms is computed once
TabulatedTexts ==
  Commands \cup {"What's the weather", "How long to get vercelli?",
                 "How long to get turin?", "How long to get get?"}

ParsedTexts == {<<text, parse(text)>> : text \in TabulatedTexts}

parse_intent(text) ==
  IF text \in TabulatedTexts
  THEN (CHOOSE entry \in ParsedTexts : entry[1] = text)[2]
  ELSE parse(text)

\* line 340: the language that selects the connective list of has_concatenation
detected_lang_temp(resolved_command) ==
  IF \E word \in {"che", "sono", "è"} : Contains(lower(resolved_command), word)
  THEN "it" ELSE "en"

\* lines 337-366: follow-up, concatenation test, classification and merge
Classified(resolved_command, additional_params) ==
  [resolved_command |-> resolved_command,
   additional_params |-> additional_params,
   detected_lang_temp |-> detected_lang_temp(resolved_command),
   has_concatenation |->
     has_concatenation(resolved_command, detected_lang_temp(resolved_command)),
   extracted |-> parse_intent(resolved_command).parameters,
   intent_result |-> [parse_intent(resolved_command)
                        EXCEPT !.parameters = Update(@, additional_params)]]

\* What the rest of the turn works with: the texts handed to parse_intent, the
\* segments of the split (None when no split was made), the collaborator's reply (None
\* when it was not asked) and the intent and parameters to execute, or the exception
Decided(base, classified, sub_queries, reply, outcome) ==
  [base |-> base, classified |-> classified, sub_queries |-> sub_queries,
   reply |-> reply, outcome |-> outcome]

\* lines 378-384: the segment that is classified again
FirstSegment_Last(sub_queries) == sub_queries[Len(sub_queries)]

FirstSegment(sub_queries) == sub_queries[1]

\* lines 369-384: the concatenation branch
Resplit(base, sub_queries, first_result) ==
  IF Len(sub_queries) > 1
  THEN Decided(base, <<base.resolved_command, FirstSegment(sub_queries)>>,
               Some(sub_queries), None,
               Returned([intent |-> first_result.intent,
                         params |-> first_result.parameters]))
  ELSE Decided(base, <<base.resolved_command>>, Some(sub_queries), None,
               Returned([intent |-> base.intent_result.intent,
                         params |-> base.intent_result.parameters]))

Concatenated(base, sub_queries) ==
  Resplit(base, sub_queries,
          IF Len(sub_queries) > 1 THEN parse_intent(FirstSegment(sub_queries)) ELSE None)

\* lines 390-398: the intent after the collaborator's verdict
Substituted(intent, complex_result) ==
  IF IsNone(complex_result) THEN Returned(intent)
  ELSE IF Value(complex_result).type # "complex" THEN Returned(intent)
  ELSE IF ~JTruthy(GetOr(Value(complex_result).intents, Json("list", <<>>))) THEN Returned(intent)
  ELSE JFirst(GetOr(Value(complex_result).intents, Json("list", <<>>)))

\* lines 387-400: the escalation branch
Verdict(base, reply, intent) ==
  Decided(base, <<base.resolved_command>>, None, Some(reply),
          IF intent.raised THEN intent
          ELSE Returned([intent |-> intent.value,
                         params |-> base.intent_result.parameters]))

Escalated(base, reply) ==
  Verdict(base, reply, Substituted(base.intent_result.intent, parse_complex_query(reply)))

\* neither branch: the base classification is executed
Kept(base) ==
  Decided(base, <<base.resolved_command>>, None, None,
          Returned([intent |-> base.intent_result.intent,
                    params |-> base.intent_result.parameters]))

\* What a skill leaves in response_text and success (lines 417-1007).  The skills are
\* outside this model, which lets them track no response, so that the fallback of
\* lines 1010-1014 supplies what is recorded
SkillOutcomes == {<<"", FALSE>>}

\* lines 1010-1014: the response and the success flag recorded, those of the skill
\* unless it tracked no response
Tracked(intent, skill) ==
  IF skill[1] = "" THEN <<"Intent " \o intent \o " executed", TRUE>> ELSE skill

\* line 144: the context of the loop.  The source's timeout of 300 seconds is scaled
\* to the model's clock; the loop reads of the history only whether it is empty, so a
\* history of one turn stands for the source's ten
InitOrchestrator ==
  /\ now = 0
  /\ context = ContextManager(MaxTimeout, 1, 0)
  /\ call = NoCall
  /\ InitParser

\* lines 402-1033: the skill runs and the turn is recorded; an exception raised
\* before leaves the loop's try block (line 1047) and nothing is recorded
Finish(command, decided) ==
  IF decided.outcome.raised
  THEN /\ call' = [op |-> "turn", command |-> command, decided |-> decided,
                   recorded |-> FALSE]
       /\ UNCHANGED <<context, now, utterance, result, detected>>
  ELSE \E skill \in SkillOutcomes :
         /\ context' = add_turn(context, command, decided.outcome.value.intent,
                                decided.base.intent_result.language,
                                decided.outcome.value.params,
                                Tracked(decided.outcome.value.intent, skill)[1],
                                Tracked(decided.outcome.value.intent, skill)[2], now)
         /\ call' = [op |-> "turn", command |-> command, decided |-> decided,
                     recorded |-> TRUE]
         /\ UNCHANGED <<now, utterance, result, detected>>

\* lines 368-400: the branch taken; each value is computed once and then handed on
Decide_GateFirst(command, base) ==
  IF is_complex_query(base.intent_result.intent, base.resolved_command,
                      base.intent_result.confidence)
  THEN \E reply \in Replies :
         \E decided \in {Escalated(base, reply)} : Finish(command, decided)
  ELSE IF base.has_concatenation
  THEN \E decided \in {Concatenated(base, split_query(base.resolved_command,
                                                      base.intent_result.language))} :
         Finish(command, decided)
  ELSE \E decided \in {Kept(base)} : Finish(command, decided)

Decide(command, base) ==
  IF base.has_concatenation
  THEN \E decided \in {Concatenated(base, split_query(base.resolved_command,
                                                      base.intent_result.language))} :
         Finish(command, decided)
  ELSE IF is_complex_query(base.intent_result.intent, base.resolved_command,
                           base.intent_result.confidence)
  THEN \E reply \in Replies :
         \E decided \in {Escalated(base, reply)} : Finish(command, decided)
  ELSE \E decided \in {Kept(base)} : Finish(command, decided)

\* One pass of the loop for one transcribed command; an empty one is skipped (line 335)
Turn ==
  \E command \in Commands :
    IF command = ""
    THEN /\ call' = [op |-> "skipped", command |-> command]
         /\ UNCHANGED <<context, now, utterance, result, detected>>
    ELSE \E follow_up \in {handle_follow_up(context, command, now)} :
           \E base \in {Classified(follow_up[1], follow_up[2])} : Decide(command, base)

NextOrchestrator == Turn \/ Tick

SpecOrchestrator == InitOrchestrator /\ [][NextOrchestrator]_vars

(***************************************************************************)
(* Claims about the main loop, checked under SpecOrchestrator              *)
(***************************************************************************)
\* the collaborator was asked in the turn just made
Asked == call.op = "turn" /\ ~IsNone(call.decided.reply)

\* a reply that is no usable verdict: a failed request, a text without a JSON object,
\* a verdict of another type than "complex", or one whose intents are no non-empty list
NoVerdict(reply) ==
  \/ reply.kind # "json"
  \/ reply.type # "complex"
  \/ reply.intents.tag # "list"
  \/ reply.intents = Json("list", <<>>)

\* the turn just made ended with add_turn recording this command and this intent
RecordedAs(command, intent) ==
  /\ call.recorded
  /\ ~IsNone(get_last_turn(context))
  /\ Value(get_last_turn(context)).command = command
  /\ Value(get_last_turn(context)).intent = intent

\* C14 (as stated): whatever the decomposition collaborator does (timeout, connection
\* error, status other than 200, unparseable text, a JSON object whose type is not
\* "complex", an empty or malformed intents value), nothing is raised past the
\* escalation step, the turn continues with the original general_chat intent and is
\* recorded with add_turn.  Violated: an intents value that is a JSON object makes
\* sub_intents[0] raise KeyError, which ends the turn unrecorded, and one that is a
\* string makes its first character the intent.
C14_NoVerdictKeepsGeneralChat ==
  Asked /\ NoVerdict(Value(call.decided.reply)) =>
    /\ ~call.decided.outcome.raised
    /\ call.decided.outcome.value.intent = "general_chat"
    /\ RecordedAs(call.command, "general_chat")

\* C18 (as stated): the context only supplies missing parameters: after the additional
\* parameters of handle_follow_up are merged into the classified result, every
\* parameter that the classifier extracted from the utterance still has its extracted
\* value.  Violated: dict.update lets the context's value replace the extracted one, so
\* after "Traffic to Vercelli" the destination "turin" of "how long to get to Turin by
\* car" becomes "vercelli".
C18_ExtractedParametersKept ==
  call.op = "turn" =>
    \A key \in DOMAIN call.decided.base.extracted :
      call.decided.base.intent_result.parameters[key] = call.decided.base.extracted[key]

\* the turn just made took the concatenation branch
Split == call.op = "turn" /\ call.decided.base.has_concatenation

\* the turn just made executed this intent with these parameters and recorded both
ExecutedAndRecorded(intent, params) ==
  /\ ~call.decided.outcome.raised
  /\ call.decided.outcome.value = [intent |-> intent, params |-> params]
  /\ RecordedAs(call.command, intent)
  /\ Value(get_last_turn(context)).parameters = params

\* C19: when concatenation is detected and split_query returns more than one segment,
\* the orchestrator classifies again only the first segment and executes and records
\* exactly that segment's intent and parameters; no later segment is classified or
\* executed in the turn; when the split returns a single segment, the base
\* classification is kept.
C19_OnlyFirstSegment ==
  Split =>
    LET sub_queries == Value(call.decided.sub_queries)
        base == call.decided.base
    IN IF Len(sub_queries) > 1
       THEN /\ call.decided.classified = <<base.resolved_command, sub_queries[1]>>
            /\ ExecutedAndRecorded(parse_intent(sub_queries[1]).intent,
                                   parse_intent(sub_queries[1]).parameters)
       ELSE /\ call.decided.classified = <<base.resolved_command>>
            /\ ExecutedAndRecorded(base.intent_result.intent,
                                   base.intent_result.parameters)

\* "What's the weather and what's the news?" was split in two; its first segment was
\* classified as weather, and this is what was recorded
C19_Witness ==
  /\ Split
  /\ call.command = "What's the weather and what's the news?"
  /\ Value(call.decided.sub_queries) = <<"What's the weather", "what's the news?">>
  /\ call.decided.classified[2] = "What's the weather"
  /\ RecordedAs(call.command, "weather")

\* the collaborator's verdict in the turn just made has type "complex" and a non-empty
\* list of candidates
ComplexVerdict ==
  /\ Asked
  /\ Value(call.decided.reply).kind = "json"
  /\ Value(call.decided.reply).type = "complex"
  /\ Value(call.decided.reply).intents.tag = "list"
  /\ Value(call.decided.reply).intents.value # <<>>

\* C20: when the gate triggers and the verdict has type "complex" with a non-empty
\* candidate list, the intent executed and recorded is the first candidate, and the
\* parameters are those of the base general_chat classification with the
\* context-supplied ones merged in; nothing is classified again for the substituted
\* intent, and no later candidate is executed.
C20_FirstCandidateBaseParameters ==
  ComplexVerdict =>
    LET base == call.decided.base
    IN /\ base.intent_result.intent = "general_chat"
       /\ base.intent_result.parameters = Update(base.extracted, base.additional_params)
       /\ call.decided.classified = <<base.resolved_command>>
       /\ ExecutedAndRecorded(Value(call.decided.reply).intents.value[1],
                              base.intent_result.parameters)

\* after "Traffic to Vercelli", "What's the traffic like?" went to the collaborator,
\* whose first candidate "weather" was executed with the query of the general_chat
\* classification and the destination supplied by the context
C20_Witness ==
  /\ ComplexVerdict
  /\ call.command = "What's the traffic like?"
  /\ Value(call.decided.reply).intents.value = <<"weather", "calendar_today">>
  /\ call.decided.base.additional_params = KV("destination", "vercelli")
  /\ RecordedAs(call.command, "weather")
  /\ Value(get_last_turn(context)).parameters =
       Update(KV("query", "What's the traffic like?"), KV("destination", "vercelli"))

(***************************************************************************)
(* Claims about what add_turn stores and about the topic, checked under    *)
(* Spec                                                                    *)
(***************************************************************************)
\* the value add_turn stores in a field fed by the parameter `key`
Stored(parameters, key, before) ==
  IF key \in DOMAIN parameters THEN Some(parameters[key]) ELSE before

\* the turn is a recipe turn that names what it searches
RecipeWithQuery(input) ==
  input[2] \in {"recipe_search", "recipe_random"} /\ "query" \in DOMAIN input[4]

\* C21: after add_turn on an active context, current_location is the turn's location
\* parameter when it has one and is unchanged otherwise, current_destination likewise
\* for the destination parameter; when the turn carries a destination, last_entity is
\* that destination, unless the turn is a recipe turn with a query, whose query it is;
\* last_activity is the time of the call, so the context is active right afterwards.
C21_TurnUpdatesPlaces ==
  [][call'.op = "add_turn" /\ is_active(context, now) =>
       /\ context'.current_location =
            Stored(call'.input[4], "location", context.current_location)
       /\ context'.current_destination =
            Stored(call'.input[4], "destination", context.current_destination)
       /\ "destination" \in DOMAIN call'.input[4] =>
            context'.last_entity =
              IF RecipeWithQuery(call'.input)
              THEN Some(call'.input[4]["query"])
              ELSE Some(call'.input[4]["destination"])
       /\ context'.last_activity = now
       /\ is_active(context', now)
    ]_vars

\* add_turn recorded, on an active context that held the location Milan, a recipe
\* search that carries both a destination and a query: the location stayed, the
\* destination was stored and the last entity is the query
C21_Witness ==
  /\ call.op = "add_turn"
  /\ ~call.expired
  /\ "destination" \in DOMAIN call.input[4]
  /\ RecipeWithQuery(call.input)
  /\ context.current_location = Some("Milan")
  /\ context.current_destination = Some("vercelli")
  /\ context.last_entity = Some("carbonara")
  /\ context.last_activity = now
  /\ is_active(context, now)

\* C21 (as stated): whenever the turn carries a destination, last_entity is that
\* destination after the call.  Violated by a recipe search that carries a destination
\* and a query: the query is stored last (lines 152-154).
C21_DestinationIsLastEntity ==
  [][call'.op = "add_turn" /\ is_active(context, now) =>
       /\ context'.current_location =
            Stored(call'.input[4], "location", context.current_location)
       /\ context'.current_destination =
            Stored(call'.input[4], "destination", context.current_destination)
       /\ "destination" \in DOMAIN call'.input[4] =>
            context'.last_entity = Some(call'.input[4]["destination"])
       /\ context'.last_activity = now
       /\ is_active(context', now)
    ]_vars

(***************************************************************************)
(* Further claims about pronouns and follow-ups, checked under SpecContext *)
(***************************************************************************)
\* the word, between spaces, at the start or at the end of the text, whatever its case
Inside(text, word) == Contains(lower(text), " " \o word \o " ")
AtStart(text, word) == startswith(lower(text), word \o " ")
AtEnd(text, word) == endswith(lower(text), " " \o word)

\* every form of the word that the text holds has become the entity: none is left
\* inside, the text starts with the capitalized entity where it started with the word
\* and ends with the entity where it ended with the word
FormsReplaced(text, returned, word, entity) ==
  /\ Inside(text, word) => ~Inside(returned, word)
  /\ AtStart(text, word) => startswith(returned, capitalize(entity) \o " ")
  /\ AtEnd(text, word) => endswith(returned, " " \o entity)

\* C22: in an active context whose last_entity is set, resolve_pronoun replaces with
\* the last entity every form of "it" and of "that" that the text holds: inside the
\* text, at its start (capitalized) and at its end; and " there" is replaced by the
\* current destination in the text that the entity substitution produced.
C22_EveryFormReplaced ==
  call.op = "resolve_pronoun" /\ is_active(context, now) /\ Truthy(context.last_entity) =>
    /\ FormsReplaced(call.text, call.returned, "it", Value(context.last_entity))
    /\ FormsReplaced(call.text, call.returned, "that", Value(context.last_entity))
    /\ call.returned =
         ResolveThere(context,
                      ResolveThat(context, ResolveIt(context, call.text, lower(call.text)),
                                  lower(call.text)),
                      lower(call.text))

\* the command asks for a journey's duration or for the traffic without naming where to
AsksForDestination(command) ==
  \/ Contains(lower(command), "how long")
  \/ Contains(lower(command), "will it take")
  \/ Contains(lower(command), "traffic") /\ ~WholeWord(lower(command), "to")

\* the command is about tomorrow or asks "what about"
AsksAbout(command) ==
  Contains(lower(command), "tomorrow") \/ Contains(lower(command), "what about")

\* C23: in an active context with a non-empty history and current_destination set,
\* handle_follow_up adds destination = current_destination whenever the command
\* contains "how long" or "will it take", or contains "traffic" and not the word "to";
\* when the command contains "tomorrow" or "what about" it copies each of
\* current_location and current_destination that is set; otherwise it adds nothing.
C23_FollowUpParameters ==
  /\ call.op = "handle_follow_up"
  /\ is_active(context, now)
  /\ context.history # <<>>
  /\ Truthy(context.current_destination)
  => /\ AsksForDestination(call.command) \/ AsksAbout(call.command) =>
          /\ "destination" \in DOMAIN call.returned[2]
          /\ call.returned[2]["destination"] = Value(context.current_destination)
     /\ AsksAbout(call.command) /\ Truthy(context.current_location) =>
          /\ "location" \in DOMAIN call.returned[2]
          /\ call.returned[2]["location"] = Value(context.current_location)
     /\ ~AsksAbout(call.command) => "location" \notin DOMAIN call.returned[2]
     /\ ~AsksForDestination(call.command) /\ ~AsksAbout(call.command) =>
          call.returned[2] = EmptyDict

(***************************************************************************)
(* Further claims about the main loop, checked under SpecOrchestrator      *)
(***************************************************************************)
\* C24: the language that selects the connective list for an utterance is the verdict
\* of detect_language for it, and has_concatenation and split_query are given the same
\* language, so that a detected concatenation is split with the list that detected it.
C24_OneLanguageForConnectives ==
  call.op = "turn" =>
    /\ call.decided.base.detected_lang_temp =
         detect_language(call.decided.base.resolved_command)
    /\ Split =>
         /\ call.decided.base.intent_result.language = call.decided.base.detected_lang_temp
         /\ Value(call.decided.sub_queries) =
              split_query(call.decided.base.resolved_command,
                          call.decided.base.detected_lang_temp)

(***************************************************************************)
(* Claim about the frame of the reading calls, checked under SpecReads     *)
(***************************************************************************)
\* the calls that only read
ReadingCalls ==
  {"is_active", "resolve_pronoun", "handle_follow_up", "get_context_summary",
   "get_last_turn", "get_preference"}

\* what a reset clears: the history and the five scalar fields
Dialogue(c) ==
  <<c.history, c.current_location, c.current_destination, c.current_time_reference,
    c.current_topic, c.last_entity>>

\* C25: expiry is lazy and only mutating calls change state: is_active,
\* resolve_pronoun, handle_follow_up, get_context_summary, get_last_turn and
\* get_preference leave the history, the five scalar fields, the preferences,
\* last_activity and session_start as they were, in every state; the passing of time
\* changes none of them either, and what an expired context still holds is cleared
\* only by the next add_turn, which clears it before it records, or by a reset.
C25_ReadsChangeNothing ==
  [][/\ call'.op \in ReadingCalls \cup {"time_passes"} => context' = context
     /\ ~is_active(context, now) /\ Dialogue(context') # Dialogue(context) =>
          call'.op \in {"add_turn", "reset"}
     /\ ~is_active(context, now) /\ call'.op = "add_turn" =>
          /\ Len(context'.history) = 1
          /\ context'.current_location = Stored(call'.input[4], "location", None)
          /\ context'.current_destination = Stored(call'.input[4], "destination", None)
          /\ context'.current_time_reference = Stored(call'.input[4], "arrival_time", None)
    ]_vars

\* get_context_summary was called on an expired context: it reports the context as
\* inactive, and the context still holds its turn, the destination Vercelli and a
\* preference
C25_Witness ==
  /\ call.op = "get_context_summary"
  /\ ~is_active(context, now)
  /\ call.returned.active = FALSE
  /\ call.returned.turns = 1
  /\ call.returned.current_destination = Some("Vercelli")
  /\ context.current_destination = Some("Vercelli")
  /\ context.history # <<>>
  /\ context.preferences = KV("units", "metric")

\* C26: every non-empty transcribed command goes through handle_follow_up,
\* classification, the concatenation or escalation decision and the skill, and ends
\* with one add_turn that records the original command text and the intent that was
\* executed; the context the follow-up read is the one add_turn is applied to, and no
\* processed command is left unrecorded.
C26_EveryCommandRecorded ==
  [][call'.op = "turn" =>
       /\ call'.command # ""
       /\ call'.decided.base =
            Classified(handle_follow_up(context, call'.command, now)[1],
                       handle_follow_up(context, call'.command, now)[2])
       /\ ~call'.decided.outcome.raised
       /\ call'.recorded
       /\ context' =
            add_turn(context, call'.command, call'.decided.outcome.value.intent,
                     call'.decided.base.intent_result.language,
                     call'.decided.outcome.value.params,
                     "Intent " \o call'.decided.outcome.value.intent \o " executed",
                     TRUE, now)
    ]_vars

(***************************************************************************)
(* Further claim about the intent parser, checked under SpecParser         *)
(***************************************************************************)
\* the location that a weather rule captured, None when its location group took no
\* part in the match; the location group is the last group of every weather rule
CapturedLocation(match_groups) ==
  IF /\ ~IsNone(match_groups[Len(match_groups)])
     /\ Value(match_groups[Len(match_groups)]) # ""
  THEN Some(strip(Value(match_groups[Len(match_groups)])))
  ELSE None

\* the parameters hold a location: the captured one when there is one, the configured
\* default otherwise, and never a preposition
LocationIs(parameters, captured) ==
  /\ "location" \in DOMAIN parameters
  /\ parameters["location"] \notin {"in", "for"}
  /\ parameters["location"] =
       IF IsNone(captured) THEN DEFAULT_LOCATION ELSE Value(captured)

\* C27: for every utterance that a weather rule matches, the location parameter is the
\* location text captured from the utterance when there is one and the configured
\* default location when there is none; it is always present and never a captured
\* preposition such as "in" or "for".
C27_WeatherLocation ==
  /\ ~IsNone(result)
  /\ Value(result).intent = "weather"
  /\ Value(result).confidence = ConfidenceMatch
  => LocationIs(Value(result).parameters,
                CapturedLocation(FirstMatch(Normalize(utterance), 1, Len(RuleOrder)).g))

(***************************************************************************)
(* Claim about the topic, checked under Spec                               *)
(***************************************************************************)
\* the topic that the fixed table gives for an intent
TopicOf(intent) == IF intent \in DOMAIN topic_map THEN topic_map[intent] ELSE "general"

\* C28: in every reachable state current_topic is None when the history is empty, and
\* otherwise the topic that the fixed table gives for the intent of the most recent
\* turn, "general" when the intent is not in the table; it never reflects an older turn.
C28_TopicOfLastTurn ==
  IF context.history = <<>>
  THEN IsNone(context.current_topic)
  ELSE context.current_topic =
         Some(TopicOf(context.history[Len(context.history)].intent))

\* the history holds a weather turn followed by a turn whose intent is not in the
\* table: the topic is "general", not the "weather" of the older turn
C28_Witness ==
  /\ Len(context.history) = 2
  /\ context.history[1].intent = "weather"
  /\ context.history[2].intent = "test"
  /\ context.current_topic = Some("general")

\* the gate of the escalation would let the base classification of the turn through
GateOpen ==
  is_complex_query(call.decided.base.intent_result.intent,
                   call.decided.base.resolved_command,
                   call.decided.base.intent_result.confidence)

\* C29: concatenation handling and escalation exclude each other in a turn: whenever
\* has_concatenation was true for the utterance, the collaborator is not called in
\* that turn, even when split_query returns a single segment and the base
\* classification is a low-confidence general_chat; the collaborator is called only
\* when no concatenation was detected and the gate is open, and then once.
C29_SplitOrAskNeverBoth ==
  call.op = "turn" =>
    /\ Split => IsNone(call.decided.reply) /\ ~IsNone(call.decided.sub_queries)
    /\ Asked <=> ~call.decided.base.has_concatenation /\ GateOpen
    /\ Asked => IsNone(call.decided.sub_queries) /\ Len(call.decided.reply) = 1

\* a concatenation was detected in a general_chat utterance of confidence 0.5 that the
\* gate would let through, split_query returned it as a single segment, and the
\* collaborator was not asked: the turn was recorded as general_chat
C29_Witness ==
  /\ Split
  /\ call.command = "Should I cook pasta e fagioli for the chef?"
  /\ Len(Value(call.decided.sub_queries)) = 1
  /\ call.decided.base.intent_result.intent = "general_chat"
  /\ call.decided.base.intent_result.confidence = ConfidenceFallback
  /\ GateOpen
  /\ ~Asked
  /\ RecordedAs(call.command, "general_chat")

\* C30: the intent that the loop executes and records with add_turn is always a member
\* of IntentType, on every path: the base classification, the classification of the
\* first segment, and the first candidate of the decomposition collaborator.
C30_RecordedIntentIsIntentType ==
  /\ call.op = "turn" /\ ~call.decided.outcome.raised =>
       call.decided.outcome.value.intent \in IntentType
  /\ \A k \in 1..Len(context.history) : context.history[k].intent \in IntentType

=============================================================================
